---------------------------- MODULE Spec2Model ----------------------------
(***************************************************************************)
(* A model of phase2 (src/src/lib.rs): the Groth16 "Phase 2" multi-party   *)
(* parameter ceremony.                                                     *)
(*                                                                         *)
(* Abstractions.  The pairing groups G1, G2 and GT of BLS12-381 are cyclic *)
(* of prime order r; a point is represented by its discrete logarithm with *)
(* respect to the group's generator, so the identity is 0, the generator   *)
(* is 1, scalar multiplication is multiplication modulo r, and the pairing *)
(* e(a*G1, b*G2) = (a*b)*GT is multiplication modulo r too.  The order is  *)
(* the small prime R.  BLAKE2b is modelled as a collision-free function:   *)
(* the digest of a byte string is the byte string itself.  A byte string   *)
(* is a sequence of integers; every value is written with a fixed layout   *)
(* and read back positionally, as in the source.                           *)
(***************************************************************************)
EXTENDS Integers, Sequences, FiniteSets, TLC

\* Order of the scalar field bls12_381::Scalar and of G1, G2, GT.
R == 5

\* Most contribute calls applied to one MPCParameters.
MaxContrib == 2

Fr == 0 .. (R - 1)

\* G1Affine::identity / G2Affine::identity and the generators, as logarithms.
Identity == 0
G1Generator == 1
G2Generator == 1

is_identity(p) == p = Identity

\* Mul<Scalar> for a point: s.mul(delta).
PointMul(p, k) == (p * k) % R

\* AddAssign for projective points.
PointAdd(p, q) == (p + q) % R

\* PairingCurveAffine::pairing_with.
pairing_with(p, q) == (p * q) % R

\* Scalar::invert: None for zero.
invert(x) ==
  IF x % R = 0 THEN [some |-> FALSE, v |-> 0]
  ELSE [some |-> TRUE, v |-> CHOOSE y \in 1 .. (R - 1) : (x * y) % R = 1]

same_ratio(g1, g2) == pairing_with(g1[1], g2[2]) = pairing_with(g1[2], g2[1])

(***************************************************************************)
(* Byte strings.                                                           *)
(***************************************************************************)
RECURSIVE Concat(_)
Concat(ss) == IF ss = <<>> THEN <<>> ELSE Head(ss) \o Concat(Tail(ss))

Drop(s, n) == SubSeq(s, n + 1, Len(s))
Take(s, n) == SubSeq(s, 1, n)

\* UncompressedEncoding::to_uncompressed for G1: an infinity flag and the
\* coordinates.
G1Width == 2
G1ToUncompressed(p) == IF is_identity(p) THEN <<1, 0>> ELSE <<0, p>>

\* UncompressedEncoding::to_uncompressed for G2 (twice the coordinates).
G2Width == 3
G2ToUncompressed(p) == IF is_identity(p) THEN <<1, 0, 0>> ELSE <<0, 0, p>>

\* from_uncompressed (checked: on curve and in the subgroup) and
\* from_uncompressed_unchecked (only the encoding's form), as Option.  The
\* coordinates 1 .. R-1 are the points of the group other than the identity;
\* coordinates from R on are well-formed but of no point of the group, and
\* the unchecked decoding returns them as they are.
G1FromUncompressed(b, checked) ==
  IF b = <<1, 0>> THEN [some |-> TRUE, v |-> Identity]
  ELSE IF b[1] = 0 /\ b[2] >= 1 /\ (checked => b[2] < R)
       THEN [some |-> TRUE, v |-> b[2]]
       ELSE [some |-> FALSE, v |-> Identity]

G2FromUncompressed(b, checked) ==
  IF b = <<1, 0, 0>> THEN [some |-> TRUE, v |-> Identity]
  ELSE IF b[1] = 0 /\ b[2] = 0 /\ b[3] >= 1 /\ (checked => b[3] < R)
       THEN [some |-> TRUE, v |-> b[3]]
       ELSE [some |-> FALSE, v |-> Identity]

\* WriteBytesExt::write_u32::<BigEndian>(n as u32): four bytes.
WriteU32(n) ==
  << (n \div 16777216) % 256, (n \div 65536) % 256, (n \div 256) % 256, n % 256 >>

U32Width == 4
U32FromBytes(b) == ((b[1] * 256 + b[2]) * 256 + b[3]) * 256 + b[4]

\* A [u8; 64] digest written with write_all.  The modelled digest has the
\* length of its preimage, so its length goes first.
WriteDigest(h) == <<Len(h)>> \o h

\* Result of a read: ok, the value, and the bytes left.
ReadErr == [ok |-> FALSE, v |-> <<>>, rest |-> <<>>]
ReadOk(v, rest) == [ok |-> TRUE, v |-> v, rest |-> rest]

\* F applied to the value of e, with e evaluated once: the sequencing of
\* one statement after another.
Then(e, F(_)) == CHOOSE y \in {F(x) : x \in {e}} : TRUE

\* The ? operator on a read: its error is returned, its value passed on.
Try(r, F(_)) == Then(r, LAMBDA x : IF ~x.ok THEN ReadErr ELSE F(x))

\* read_exact into a [u8; 64].
ReadDigest(s) ==
  IF Len(s) < 1 \/ s[1] < 0 \/ Len(s) < 1 + s[1] THEN ReadErr
  ELSE ReadOk(SubSeq(s, 2, 1 + s[1]), Drop(s, 1 + s[1]))

ReadU32(s) ==
  IF Len(s) < U32Width THEN ReadErr
  ELSE ReadOk(U32FromBytes(Take(s, U32Width)), Drop(s, U32Width))

\* The read of one G1 point that rejects the point at infinity
\* (PublicKey::read, the read_g1 closures).
ReadG1(s, checked) ==
  IF Len(s) < G1Width THEN ReadErr
  ELSE Then(G1FromUncompressed(Take(s, G1Width), checked), LAMBDA p :
         IF ~p.some \/ is_identity(p.v) THEN ReadErr
         ELSE ReadOk(p.v, Drop(s, G1Width)))

ReadG2(s, checked) ==
  IF Len(s) < G2Width THEN ReadErr
  ELSE Then(G2FromUncompressed(Take(s, G2Width), checked), LAMBDA p :
         IF ~p.some \/ is_identity(p.v) THEN ReadErr
         ELSE ReadOk(p.v, Drop(s, G2Width)))

\* The read of one point of a verifying key: checked, the point at infinity
\* allowed.
ReadG1Any(s) ==
  IF Len(s) < G1Width THEN ReadErr
  ELSE Then(G1FromUncompressed(Take(s, G1Width), TRUE), LAMBDA p :
         IF ~p.some THEN ReadErr ELSE ReadOk(p.v, Drop(s, G1Width)))

ReadG2Any(s) ==
  IF Len(s) < G2Width THEN ReadErr
  ELSE Then(G2FromUncompressed(Take(s, G2Width), TRUE), LAMBDA p :
         IF ~p.some THEN ReadErr ELSE ReadOk(p.v, Drop(s, G2Width)))

\* n points read one after the other; the first failure fails the read.
RECURSIVE ReadG1s(_, _, _)
ReadG1s(s, n, checked) ==
  IF n = 0 THEN ReadOk(<<>>, s)
  ELSE Try(ReadG1(s, checked), LAMBDA p :
       Try(ReadG1s(p.rest, n - 1, checked), LAMBDA q :
       ReadOk(<<p.v>> \o q.v, q.rest)))

RECURSIVE ReadG2s(_, _, _)
ReadG2s(s, n, checked) ==
  IF n = 0 THEN ReadOk(<<>>, s)
  ELSE Try(ReadG2(s, checked), LAMBDA p :
       Try(ReadG2s(p.rest, n - 1, checked), LAMBDA q :
       ReadOk(<<p.v>> \o q.v, q.rest)))

WriteG1s(ps) == Concat([i \in 1 .. Len(ps) |-> G1ToUncompressed(ps[i])])
WriteG2s(ps) == Concat([i \in 1 .. Len(ps) |-> G2ToUncompressed(ps[i])])

(***************************************************************************)
(* HashWriter: the bytes written so far; into_hash is their digest.        *)
(***************************************************************************)
HashWriter_new == <<>>
HashWriter_write(sink, buf) == sink \o buf
\* A clone that starts from an empty hasher.
HashWriter_clone_fresh(sink) == HashWriter_new

HashWriter_clone(sink) == sink
into_hash(sink) == sink

\* hash_to_g2: G2Projective::random from a ChaCha stream seeded with the
\* first half of the digest; a function of the digest that never yields the
\* identity.  Every byte of a BLAKE2b digest depends on the whole input, and
\* the modelled digest is the input itself, so the seed is taken from where
\* the inputs differ: the digest's length and its last four bytes, the k-th
\* from the end weighted by k + 1 (a transcript ends with s and s_delta).
SeedByte(digest, k) == IF k < Len(digest) THEN digest[Len(digest) - k] ELSE 0
hash_to_g2(digest) ==
  1 + ((Len(digest) + SeedByte(digest, 0) + 2 * SeedByte(digest, 1)
          + 3 * SeedByte(digest, 2) + 4 * SeedByte(digest, 3)) % (R - 1))

(***************************************************************************)
(* PublicKey: delta_after, s, s_delta in G1, r_delta in G2, transcript.    *)
(***************************************************************************)
\* PublicKey::write with s_delta written before s.
PublicKey_write_swapped(pk) ==
  G1ToUncompressed(pk.delta_after) \o G1ToUncompressed(pk.s_delta)
    \o G1ToUncompressed(pk.s) \o G2ToUncompressed(pk.r_delta)
    \o WriteDigest(pk.transcript)

PublicKey_write(pk) ==
  G1ToUncompressed(pk.delta_after) \o G1ToUncompressed(pk.s)
    \o G1ToUncompressed(pk.s_delta) \o G2ToUncompressed(pk.r_delta)
    \o WriteDigest(pk.transcript)

\* PublicKey::read that lets the point at infinity pass as r_delta.
PublicKey_read_any_r_delta(s) ==
  Try(ReadG1(s, TRUE), LAMBDA da :
  Try(ReadG1(da.rest, TRUE), LAMBDA ps :
  Try(ReadG1(ps.rest, TRUE), LAMBDA sd :
  Try(ReadG2Any(sd.rest), LAMBDA rd :
  Try(ReadDigest(rd.rest), LAMBDA tr :
  ReadOk([delta_after |-> da.v, s |-> ps.v, s_delta |-> sd.v,
          r_delta |-> rd.v, transcript |-> tr.v], tr.rest))))))

PublicKey_read(s) ==
  Try(ReadG1(s, TRUE), LAMBDA da :
  Try(ReadG1(da.rest, TRUE), LAMBDA ps :
  Try(ReadG1(ps.rest, TRUE), LAMBDA sd :
  Try(ReadG2(sd.rest, TRUE), LAMBDA rd :
  Try(ReadDigest(rd.rest), LAMBDA tr :
  ReadOk([delta_after |-> da.v, s |-> ps.v, s_delta |-> sd.v,
          r_delta |-> rd.v, transcript |-> tr.v], tr.rest))))))

WritePublicKeys(pks) == Concat([i \in 1 .. Len(pks) |-> PublicKey_write(pks[i])])

RECURSIVE ReadPublicKeys(_, _)
ReadPublicKeys(s, n) ==
  IF n = 0 THEN ReadOk(<<>>, s)
  ELSE Try(PublicKey_read(s), LAMBDA p :
       Try(ReadPublicKeys(p.rest, n - 1), LAMBDA q :
       ReadOk(<<p.v>> \o q.v, q.rest)))

(***************************************************************************)
(* bellman's Parameters and VerifyingKey, as write and read lay them out:  *)
(* the verifying key, then the H, L, A, B_G1 and B_G2 queries, each with a *)
(* 32-bit big-endian length.                                               *)
(***************************************************************************)
VerifyingKey_write(vk) ==
  G1ToUncompressed(vk.alpha_g1) \o G1ToUncompressed(vk.beta_g1)
    \o G2ToUncompressed(vk.beta_g2) \o G2ToUncompressed(vk.gamma_g2)
    \o G1ToUncompressed(vk.delta_g1) \o G2ToUncompressed(vk.delta_g2)
    \o WriteU32(Len(vk.ic)) \o WriteG1s(vk.ic)

VerifyingKey_read(s) ==
  Try(ReadG1Any(s), LAMBDA a1 :
  Try(ReadG1Any(a1.rest), LAMBDA b1 :
  Try(ReadG2Any(b1.rest), LAMBDA b2 :
  Try(ReadG2Any(b2.rest), LAMBDA g2 :
  Try(ReadG1Any(g2.rest), LAMBDA d1 :
  Try(ReadG2Any(d1.rest), LAMBDA d2 :
  Try(ReadU32(d2.rest), LAMBDA n :
  Try(ReadG1s(n.rest, n.v, TRUE), LAMBDA ic :
  ReadOk([alpha_g1 |-> a1.v, beta_g1 |-> b1.v, beta_g2 |-> b2.v,
          gamma_g2 |-> g2.v, delta_g1 |-> d1.v, delta_g2 |-> d2.v,
          ic |-> ic.v], ic.rest)))))))))

Parameters_write(p) ==
  VerifyingKey_write(p.vk)
    \o WriteU32(Len(p.h)) \o WriteG1s(p.h)
    \o WriteU32(Len(p.l)) \o WriteG1s(p.l)
    \o WriteU32(Len(p.a)) \o WriteG1s(p.a)
    \o WriteU32(Len(p.b_g1)) \o WriteG1s(p.b_g1)
    \o WriteU32(Len(p.b_g2)) \o WriteG2s(p.b_g2)

\* A query: its 32-bit length, then its points.
ReadG1Query(s, checked) ==
  Try(ReadU32(s), LAMBDA n : ReadG1s(n.rest, n.v, checked))

ReadG2Query(s, checked) ==
  Try(ReadU32(s), LAMBDA n : ReadG2s(n.rest, n.v, checked))

Parameters_read(s, checked) ==
  Try(VerifyingKey_read(s), LAMBDA vk :
  Try(ReadG1Query(vk.rest, checked), LAMBDA h :
  Try(ReadG1Query(h.rest, checked), LAMBDA l :
  Try(ReadG1Query(l.rest, checked), LAMBDA a :
  Try(ReadG1Query(a.rest, checked), LAMBDA b1 :
  Try(ReadG2Query(b1.rest, checked), LAMBDA b2 :
  ReadOk([vk |-> vk.v, h |-> h.v, l |-> l.v, a |-> a.v,
          b_g1 |-> b1.v, b_g2 |-> b2.v], b2.rest)))))))

(***************************************************************************)
(* MPCParameters: params, cs_hash, contributions.                          *)
(***************************************************************************)
MPCParameters_write(self) ==
  Parameters_write(self.params) \o WriteDigest(self.cs_hash)
    \o WriteU32(Len(self.contributions)) \o WritePublicKeys(self.contributions)

MPCParameters_read(s, checked) ==
  Try(Parameters_read(s, checked), LAMBDA p :
  Try(ReadDigest(p.rest), LAMBDA cs :
  Try(ReadU32(cs.rest), LAMBDA n :
  Try(ReadPublicKeys(n.rest, n.v), LAMBDA c :
  ReadOk([params |-> p.v, cs_hash |-> cs.v, contributions |-> c.v], c.rest)))))

(***************************************************************************)
(* KeypairAssembly, the ConstraintSystem a circuit is synthesized on.  A   *)
(* variable is [kind, id]; a linear combination is a sequence of terms     *)
(* [var, coeff]; a column entry is <<coeff, constraint>>.  Vectors are     *)
(* 1-based here: the variable with index id has column id + 1.             *)
(***************************************************************************)
Input(i) == [kind |-> "Input", id |-> i]
Aux(i) == [kind |-> "Aux", id |-> i]
Term(v, c) == [var |-> v, coeff |-> c]

KeypairAssembly_new ==
  [num_inputs |-> 0, num_aux |-> 0, num_constraints |-> 0,
   at_inputs |-> <<>>, bt_inputs |-> <<>>, ct_inputs |-> <<>>,
   at_aux |-> <<>>, bt_aux |-> <<>>, ct_aux |-> <<>>]

\* alloc that pushes no column on ct_aux.
alloc_no_ct(cs) ==
  [cs EXCEPT !.num_aux = @ + 1,
             !.at_aux = Append(@, <<>>),
             !.bt_aux = Append(@, <<>>)]

\* The variables alloc and alloc_input return: the index is the count
\* before the call.
alloc_ret(cs) == Aux(cs.num_aux)
alloc_input_ret(cs) == Input(cs.num_inputs)

alloc(cs) ==
  [cs EXCEPT !.num_aux = @ + 1,
             !.at_aux = Append(@, <<>>),
             !.bt_aux = Append(@, <<>>),
             !.ct_aux = Append(@, <<>>)]

alloc_input(cs) ==
  [cs EXCEPT !.num_inputs = @ + 1,
             !.at_inputs = Append(@, <<>>),
             !.bt_inputs = Append(@, <<>>),
             !.ct_inputs = Append(@, <<>>)]

\* enforce's inner eval: every term of l is pushed on its variable's column.
RECURSIVE enforce_eval(_, _, _, _)
enforce_eval(l, inputs, aux, this_constraint) ==
  IF l = <<>> THEN [inputs |-> inputs, aux |-> aux]
  ELSE LET t == Head(l)
           e == <<t.coeff, this_constraint>>
       IN IF t.var.kind = "Input"
          THEN enforce_eval(Tail(l),
                 [inputs EXCEPT ![t.var.id + 1] = Append(@, e)], aux,
                 this_constraint)
          ELSE enforce_eval(Tail(l), inputs,
                 [aux EXCEPT ![t.var.id + 1] = Append(@, e)],
                 this_constraint)

\* enforce that does not count the constraint.
enforce_no_increment(cs, a, b, c) ==
  LET ea == enforce_eval(a, cs.at_inputs, cs.at_aux, cs.num_constraints)
      eb == enforce_eval(b, cs.bt_inputs, cs.bt_aux, cs.num_constraints)
      ec == enforce_eval(c, cs.ct_inputs, cs.ct_aux, cs.num_constraints)
  IN [cs EXCEPT !.at_inputs = ea.inputs, !.at_aux = ea.aux,
                !.bt_inputs = eb.inputs, !.bt_aux = eb.aux,
                !.ct_inputs = ec.inputs, !.ct_aux = ec.aux]

\* push_namespace and pop_namespace do nothing.
push_namespace(cs) == cs
pop_namespace(cs) == cs

enforce(cs, a, b, c) ==
  LET ea == enforce_eval(a, cs.at_inputs, cs.at_aux, cs.num_constraints)
      eb == enforce_eval(b, cs.bt_inputs, cs.bt_aux, cs.num_constraints)
      ec == enforce_eval(c, cs.ct_inputs, cs.ct_aux, cs.num_constraints)
  IN [cs EXCEPT !.at_inputs = ea.inputs, !.at_aux = ea.aux,
                !.bt_inputs = eb.inputs, !.bt_aux = eb.aux,
                !.ct_inputs = ec.inputs, !.ct_aux = ec.aux,
                !.num_constraints = @ + 1]

(***************************************************************************)
(* Circuits.  A circuit is the sequence of calls its synthesize makes on   *)
(* the constraint system; "fail" is a synthesize that returns an error.    *)
(***************************************************************************)
CallAlloc == [op |-> "alloc", a |-> <<>>, b |-> <<>>, c |-> <<>>]
CallAllocInput == [op |-> "alloc_input", a |-> <<>>, b |-> <<>>, c |-> <<>>]
CallEnforce(a, b, c) == [op |-> "enforce", a |-> a, b |-> b, c |-> c]
CallFail == [op |-> "fail", a |-> <<>>, b |-> <<>>, c |-> <<>>]

\* The CubeRoot circuit of the crate documentation: root, square (aux),
\* root * root = square, cube (input), root * square = cube.
CubeRoot ==
  << CallAlloc, CallAlloc,
     CallEnforce(<<Term(Aux(0), 1)>>, <<Term(Aux(0), 1)>>, <<Term(Aux(1), 1)>>),
     CallAllocInput,
     CallEnforce(<<Term(Aux(0), 1)>>, <<Term(Aux(1), 1)>>, <<Term(Input(1), 1)>>) >>

\* A circuit with no variable and no constraint of its own.
EmptyCircuit == <<>>

\* One auxiliary variable x with (2x + 1) * x = x.
SquareCircuit ==
  << CallAlloc,
     CallEnforce(<<Term(Aux(0), 2), Term(Input(0), 1)>>, <<Term(Aux(0), 1)>>,
                 <<Term(Aux(0), 1)>>) >>

\* An auxiliary variable that no constraint mentions.
UnconstrainedCircuit ==
  << CallAlloc, CallAlloc,
     CallEnforce(<<Term(Aux(0), 1)>>, <<Term(Aux(0), 1)>>, <<Term(Input(0), 1)>>) >>

\* A circuit whose synthesize fails after its first allocation.
FailingCircuit == << CallAlloc, CallFail >>

\* The fifth power: root, square and fourth (aux), fifth (input); with the
\* constraints of its two inputs it has five constraints.
FifthPower ==
  << CallAlloc, CallAlloc, CallAlloc,
     CallEnforce(<<Term(Aux(0), 1)>>, <<Term(Aux(0), 1)>>, <<Term(Aux(1), 1)>>),
     CallEnforce(<<Term(Aux(1), 1)>>, <<Term(Aux(1), 1)>>, <<Term(Aux(2), 1)>>),
     CallAllocInput,
     CallEnforce(<<Term(Aux(0), 1)>>, <<Term(Aux(2), 1)>>, <<Term(Input(1), 1)>>) >>

Circuits ==
  << CubeRoot, EmptyCircuit, SquareCircuit, UnconstrainedCircuit, FailingCircuit,
     FifthPower >>

\* Circuit::synthesize: the calls in order; Err at a failing step.
RECURSIVE synthesize(_, _)
synthesize(circ, cs) ==
  IF circ = <<>> THEN [ok |-> TRUE, cs |-> cs]
  ELSE LET call == Head(circ)
       IN CASE call.op = "alloc" -> synthesize(Tail(circ), alloc(cs))
            [] call.op = "alloc_input" -> synthesize(Tail(circ), alloc_input(cs))
            [] call.op = "enforce" ->
                 synthesize(Tail(circ), enforce(cs, call.a, call.b, call.c))
            [] OTHER -> [ok |-> FALSE, cs |-> cs]

(***************************************************************************)
(* The Phase-1 transcripts "phase1radix2m{exp}" of the working directory.  *)
(* Each holds alpha, beta (G1 and G2), the Lagrange coefficients of tau in *)
(* G1 and G2, their multiples by alpha and by beta, and the H query, for   *)
(* the domain of size 2^exp.                                               *)
(***************************************************************************)
RECURSIVE Pow2(_)
Pow2(k) == IF k = 0 THEN 1 ELSE 2 * Pow2(k - 1)

Phase1Alpha == 3
Phase1Beta == 2
Phase1Lagrange(j) == 1 + (j % 3)
Phase1H(i) == 1 + (i % 4)

\* The largest exp for which the working directory holds a transcript.
Phase1MaxExp == 2

Phase1Bytes(exp) ==
  LET m == Pow2(exp)
      lag == [j \in 1 .. m |-> Phase1Lagrange(j - 1)]
  IN G1ToUncompressed(Phase1Alpha) \o G1ToUncompressed(Phase1Beta)
       \o G2ToUncompressed(Phase1Beta)
       \o WriteG1s(lag) \o WriteG2s(lag)
       \o WriteG1s([j \in 1 .. m |-> PointMul(lag[j], Phase1Alpha)])
       \o WriteG1s([j \in 1 .. m |-> PointMul(lag[j], Phase1Beta)])
       \o WriteG1s([i \in 1 .. (m - 1) |-> Phase1H(i - 1)])

\* File::open(format!("phase1radix2m{}", exp)).
File_open(exp) ==
  IF exp <= Phase1MaxExp THEN [ok |-> TRUE, bytes |-> Phase1Bytes(exp)]
  ELSE [ok |-> FALSE, bytes |-> <<>>]

(***************************************************************************)
(* MPCParameters::new                                                      *)
(***************************************************************************)
EmptyParameters ==
  [vk |-> [alpha_g1 |-> Identity, beta_g1 |-> Identity, beta_g2 |-> Identity,
           gamma_g2 |-> Identity, delta_g1 |-> Identity, delta_g2 |-> Identity,
           ic |-> <<>>],
   h |-> <<>>, l |-> <<>>, a |-> <<>>, b_g1 |-> <<>>, b_g2 |-> <<>>]

\* The value of a variable that holds no MPCParameters.
NoMPCParameters ==
  [params |-> EmptyParameters, cs_hash |-> <<>>, contributions |-> <<>>]

NewOk(v) == [status |-> "Ok", err |-> "", v |-> v]
NewErr(e) == [status |-> "Err", err |-> e, v |-> NoMPCParameters]
NewPanic(e) == [status |-> "Panic", err |-> e, v |-> NoMPCParameters]

\* The sentinel constraints x_i * 0 = 0 for the inputs i .. n-1.
RECURSIVE input_constraints(_, _, _)
input_constraints(cs, i, n) ==
  IF i >= n THEN cs
  ELSE input_constraints(enforce(cs, <<Term(Input(i), 1)>>, <<>>, <<>>), i + 1, n)

\* The largest exponent the Powers of Tau ceremony supports.
MaxExp == 21

\* domain_size that gives up one doubling early.
RECURSIVE domain_size_early(_, _, _)
domain_size_early(m, exp, num_constraints) ==
  IF m < num_constraints
  THEN IF exp + 1 >= MaxExp THEN [ok |-> FALSE, m |-> 2 * m, exp |-> exp + 1]
       ELSE domain_size_early(2 * m, exp + 1, num_constraints)
  ELSE [ok |-> TRUE, m |-> m, exp |-> exp]

\* The evaluation domain: m doubles until it reaches num_constraints.
RECURSIVE domain_size(_, _, _)
domain_size(m, exp, num_constraints) ==
  IF m < num_constraints
  THEN IF exp + 1 > MaxExp THEN [ok |-> FALSE, m |-> 2 * m, exp |-> exp + 1]
       ELSE domain_size(2 * m, exp + 1, num_constraints)
  ELSE [ok |-> TRUE, m |-> m, exp |-> exp]

(***************************************************************************)
(* The domain step of new on its own: for num_constraints = n, the domain, *)
(* the error of a degree too large, and whether new goes on to open the    *)
(* transcript.                                                             *)
(***************************************************************************)
NoDomain == [n |-> 0, status |-> "none", m |-> 1, exp |-> 0, opened |-> FALSE]

new_domain(n) ==
  LET dom == domain_size(1, 0, n)
  IN IF ~dom.ok
     THEN [n |-> n, status |-> "PolynomialDegreeTooLarge",
           m |-> dom.m, exp |-> dom.exp, opened |-> FALSE]
     ELSE [n |-> n, status |-> "Ok", m |-> dom.m, exp |-> dom.exp, opened |-> TRUE]

\* The domain step of new(circ); none when synthesize fails before it.
new_domain_of(circ) ==
  Then(synthesize(circ, alloc_input(KeypairAssembly_new)), LAMBDA syn :
    IF ~syn.ok THEN NoDomain
    ELSE new_domain(input_constraints(syn.cs, 0, syn.cs.num_inputs).num_constraints))

\* eval_column that takes every coefficient for 1.
RECURSIVE eval_column_unit(_, _)
eval_column_unit(col, coeffs) ==
  IF col = <<>> THEN Identity
  ELSE PointAdd(coeffs[Head(col)[2] + 1], eval_column_unit(Tail(col), coeffs))

\* The sum over a column's entries (coeff, lag) of coeff * coeffs[lag].
RECURSIVE eval_column(_, _)
eval_column(col, coeffs) ==
  IF col = <<>> THEN Identity
  ELSE PointAdd(PointMul(coeffs[Head(col)[2] + 1], Head(col)[1]),
                eval_column(Tail(col), coeffs))

\* new's inner eval: the QAP polynomials of each variable at tau.  Each
\* vector is built as a sequence (the concatenation with the empty sequence
\* leaves it as it is).
eval(coeffs_g1, coeffs_g2, alpha_coeffs_g1, beta_coeffs_g1, at, bt, ct) ==
  [a_g1 |-> [k \in 1 .. Len(at) |-> eval_column(at[k], coeffs_g1)] \o <<>>,
   b_g1 |-> [k \in 1 .. Len(at) |-> eval_column(bt[k], coeffs_g1)] \o <<>>,
   b_g2 |-> [k \in 1 .. Len(at) |-> eval_column(bt[k], coeffs_g2)] \o <<>>,
   ext |-> [k \in 1 .. Len(at) |->
              PointAdd(PointAdd(eval_column(at[k], beta_coeffs_g1),
                                eval_column(bt[k], alpha_coeffs_g1)),
                       eval_column(ct[k], coeffs_g1))] \o <<>>]

NotIdentity(e) == ~is_identity(e)

\* The ? operator on a read of the transcript: an io::Error becomes
\* SynthesisError::IoError.
TryIo(r, F(_)) == Then(r, LAMBDA x : IF ~x.ok THEN NewErr("IoError") ELSE F(x))

\* new_assemble with the L query of the inputs and the IC of the auxiliary
\* variables.
new_assemble_ic_l_swapped(alpha, beta_g1, beta_g2, h, inputs, aux) ==
  IF \E i \in 1 .. Len(aux.ext) : is_identity(aux.ext[i])
  THEN NewErr("UnconstrainedVariable")
  ELSE Then([vk |-> [alpha_g1 |-> alpha, beta_g1 |-> beta_g1,
                     beta_g2 |-> beta_g2, gamma_g2 |-> G2Generator,
                     delta_g1 |-> G1Generator, delta_g2 |-> G2Generator,
                     ic |-> aux.ext],
             h |-> h,
             l |-> inputs.ext,
             a |-> SelectSeq(inputs.a_g1 \o aux.a_g1, NotIdentity),
             b_g1 |-> SelectSeq(inputs.b_g1 \o aux.b_g1, NotIdentity),
             b_g2 |-> SelectSeq(inputs.b_g2 \o aux.b_g2, NotIdentity)],
            LAMBDA p :
              NewOk([params |-> p,
                     cs_hash |-> into_hash(HashWriter_write(HashWriter_new,
                                                            Parameters_write(p))),
                     contributions |-> <<>>]))

\* new_assemble without the check of L.
new_assemble_no_l_check(alpha, beta_g1, beta_g2, h, inputs, aux) ==
  Then([vk |-> [alpha_g1 |-> alpha, beta_g1 |-> beta_g1,
                beta_g2 |-> beta_g2, gamma_g2 |-> G2Generator,
                delta_g1 |-> G1Generator, delta_g2 |-> G2Generator,
                ic |-> inputs.ext],
        h |-> h,
        l |-> aux.ext,
        a |-> SelectSeq(inputs.a_g1 \o aux.a_g1, NotIdentity),
        b_g1 |-> SelectSeq(inputs.b_g1 \o aux.b_g1, NotIdentity),
        b_g2 |-> SelectSeq(inputs.b_g2 \o aux.b_g2, NotIdentity)],
       LAMBDA p :
         NewOk([params |-> p,
                cs_hash |-> into_hash(HashWriter_write(HashWriter_new,
                                                       Parameters_write(p))),
                contributions |-> <<>>]))

\* The end of new: the check of L, the assembly of the parameters, cs_hash.
new_assemble(alpha, beta_g1, beta_g2, h, inputs, aux) ==
  IF \E i \in 1 .. Len(aux.ext) : is_identity(aux.ext[i])
  THEN NewErr("UnconstrainedVariable")
  ELSE Then([vk |-> [alpha_g1 |-> alpha, beta_g1 |-> beta_g1,
                     beta_g2 |-> beta_g2, gamma_g2 |-> G2Generator,
                     delta_g1 |-> G1Generator, delta_g2 |-> G2Generator,
                     ic |-> inputs.ext],
             h |-> h,
             l |-> aux.ext,
             a |-> SelectSeq(inputs.a_g1 \o aux.a_g1, NotIdentity),
             b_g1 |-> SelectSeq(inputs.b_g1 \o aux.b_g1, NotIdentity),
             b_g2 |-> SelectSeq(inputs.b_g2 \o aux.b_g2, NotIdentity)],
            LAMBDA p :
              NewOk([params |-> p,
                     cs_hash |-> into_hash(HashWriter_write(HashWriter_new,
                                                            Parameters_write(p))),
                     contributions |-> <<>>]))

\* The part of new that follows the opening of the transcript f.
new_from_file(assembly, m, f) ==
  TryIo(ReadG1(f, FALSE), LAMBDA alpha :
  TryIo(ReadG1(alpha.rest, FALSE), LAMBDA beta_g1 :
  TryIo(ReadG2(beta_g1.rest, FALSE), LAMBDA beta_g2 :
  TryIo(ReadG1s(beta_g2.rest, m, FALSE), LAMBDA coeffs_g1 :
  TryIo(ReadG2s(coeffs_g1.rest, m, FALSE), LAMBDA coeffs_g2 :
  TryIo(ReadG1s(coeffs_g2.rest, m, FALSE), LAMBDA alpha_coeffs_g1 :
  TryIo(ReadG1s(alpha_coeffs_g1.rest, m, FALSE), LAMBDA beta_coeffs_g1 :
  TryIo(ReadG1s(beta_coeffs_g1.rest, m - 1, FALSE), LAMBDA h :
  Then(eval(coeffs_g1.v, coeffs_g2.v, alpha_coeffs_g1.v, beta_coeffs_g1.v,
            assembly.at_inputs, assembly.bt_inputs, assembly.ct_inputs),
       LAMBDA inputs :
  Then(eval(coeffs_g1.v, coeffs_g2.v, alpha_coeffs_g1.v, beta_coeffs_g1.v,
            assembly.at_aux, assembly.bt_aux, assembly.ct_aux),
       LAMBDA aux :
  new_assemble(alpha.v, beta_g1.v, beta_g2.v, h.v, inputs, aux)))))))))))

\* The part of new that follows synthesize, from the assembly it left.
new_after_synthesize(cs) ==
  Then(input_constraints(cs, 0, cs.num_inputs), LAMBDA assembly :
  Then(domain_size(1, 0, assembly.num_constraints), LAMBDA dom :
    IF ~dom.ok THEN NewErr("PolynomialDegreeTooLarge") ELSE
    Then(File_open(dom.exp), LAMBDA f :
      IF ~f.ok THEN NewPanic("Couldn't load phase1radix2m")
      ELSE new_from_file(assembly, dom.m, f.bytes))))

MPCParameters_new(circ) ==
  Then(synthesize(circ, alloc_input(KeypairAssembly_new)), LAMBDA syn :
    IF ~syn.ok THEN NewErr("SynthesisError") ELSE new_after_synthesize(syn.cs))

\* new of every circuit of Circuits, by the circuit's index.
InitialParams ==
  << MPCParameters_new(Circuits[1]), MPCParameters_new(Circuits[2]),
     MPCParameters_new(Circuits[3]), MPCParameters_new(Circuits[4]),
     MPCParameters_new(Circuits[5]), MPCParameters_new(Circuits[6]) >>

(***************************************************************************)
(* keypair and MPCParameters::contribute.  The caller's RNG yields the     *)
(* scalar delta (Scalar::random) and then the point s                      *)
(* (G1Projective::random, never the identity).                             *)
(***************************************************************************)
\* The transcript hash without the public keys that are in the chain already.
transcript_hash_no_history(cs_hash, contributions, s, s_delta) ==
  LET sink0 == HashWriter_write(HashWriter_new, WriteDigest(cs_hash))
      sink2 == HashWriter_write(sink0, G1ToUncompressed(s))
      sink3 == HashWriter_write(sink2, G1ToUncompressed(s_delta))
  IN into_hash(sink3)

\* H(cs_hash | <previous pubkeys> | s | s_delta)
transcript_hash(cs_hash, contributions, s, s_delta) ==
  LET sink0 == HashWriter_write(HashWriter_new, WriteDigest(cs_hash))
      sink1 == HashWriter_write(sink0, WritePublicKeys(contributions))
      sink2 == HashWriter_write(sink1, G1ToUncompressed(s))
      sink3 == HashWriter_write(sink2, G1ToUncompressed(s_delta))
  IN into_hash(sink3)

\* keypair with delta_after left at the current delta_g1.
keypair_delta_after_stale(delta, s, current) ==
  LET s_delta == PointMul(s, delta)
      h == transcript_hash(current.cs_hash, current.contributions, s, s_delta)
      r == hash_to_g2(h)
      r_delta == PointMul(r, delta)
  IN [pubkey |-> [delta_after |-> current.params.vk.delta_g1,
                  s |-> s, s_delta |-> s_delta, r_delta |-> r_delta,
                  transcript |-> h],
      privkey |-> [delta |-> delta]]

\* keypair with r hashed from cs_hash instead of the transcript.
keypair_r_of_cs_hash(delta, s, current) ==
  LET s_delta == PointMul(s, delta)
      h == transcript_hash(current.cs_hash, current.contributions, s, s_delta)
      r == hash_to_g2(current.cs_hash)
      r_delta == PointMul(r, delta)
  IN [pubkey |-> [delta_after |-> PointMul(current.params.vk.delta_g1, delta),
                  s |-> s, s_delta |-> s_delta, r_delta |-> r_delta,
                  transcript |-> h],
      privkey |-> [delta |-> delta]]

keypair(delta, s, current) ==
  LET s_delta == PointMul(s, delta)
      h == transcript_hash(current.cs_hash, current.contributions, s, s_delta)
      r == hash_to_g2(h)
      r_delta == PointMul(r, delta)
  IN [pubkey |-> [delta_after |-> PointMul(current.params.vk.delta_g1, delta),
                  s |-> s, s_delta |-> s_delta, r_delta |-> r_delta,
                  transcript |-> h],
      privkey |-> [delta |-> delta]]

\* batch_exp that loses the last base.
batch_exp_short(bases, coeff) ==
  [i \in 1 .. (Len(bases) - 1) |-> PointMul(bases[i], coeff)]

\* contribute's inner batch_exp: every base multiplied by coeff.
batch_exp(bases, coeff) == [i \in 1 .. Len(bases) |-> PointMul(bases[i], coeff)]

\* The BLAKE2b hash of a public key: the contributor's receipt.
pubkey_hash(pubkey) ==
  into_hash(HashWriter_write(HashWriter_new, PublicKey_write(pubkey)))

\* contribute that leaves the H query as it is.
contribute_h_unscaled(self, delta, s) ==
  LET kp == keypair(delta, s, self)
      delta_inv == invert(kp.privkey.delta)
  IN IF ~delta_inv.some
     THEN [status |-> "Panic", self |-> self, ret |-> <<>>]
     ELSE [status |-> "Ok",
           self |->
             [self EXCEPT
                !.params.l = batch_exp(@, delta_inv.v),
                !.params.vk.delta_g1 = PointMul(@, kp.privkey.delta),
                !.params.vk.delta_g2 = PointMul(@, kp.privkey.delta),
                !.contributions = Append(@, kp.pubkey)],
           ret |-> pubkey_hash(kp.pubkey)]

\* contribute that puts the new public key at the head of the list.
contribute_prepend(self, delta, s) ==
  LET kp == keypair(delta, s, self)
      delta_inv == invert(kp.privkey.delta)
  IN IF ~delta_inv.some
     THEN [status |-> "Panic", self |-> self, ret |-> <<>>]
     ELSE [status |-> "Ok",
           self |->
             [self EXCEPT
                !.params.l = batch_exp(@, delta_inv.v),
                !.params.h = batch_exp(@, delta_inv.v),
                !.params.vk.delta_g1 = PointMul(@, kp.privkey.delta),
                !.params.vk.delta_g2 = PointMul(@, kp.privkey.delta),
                !.contributions = <<kp.pubkey>> \o @],
           ret |-> pubkey_hash(kp.pubkey)]

\* contribute that multiplies delta_g2 by the inverse of delta.
contribute_delta_g2_inverted(self, delta, s) ==
  LET kp == keypair(delta, s, self)
      delta_inv == invert(kp.privkey.delta)
  IN IF ~delta_inv.some
     THEN [status |-> "Panic", self |-> self, ret |-> <<>>]
     ELSE [status |-> "Ok",
           self |->
             [self EXCEPT
                !.params.l = batch_exp(@, delta_inv.v),
                !.params.h = batch_exp(@, delta_inv.v),
                !.params.vk.delta_g1 = PointMul(@, kp.privkey.delta),
                !.params.vk.delta_g2 = PointMul(@, delta_inv.v),
                !.contributions = Append(@, kp.pubkey)],
           ret |-> pubkey_hash(kp.pubkey)]

\* contribute that pushes the public key before it inverts delta.
contribute_push_first(self, delta, s) ==
  LET kp == keypair(delta, s, self)
      delta_inv == invert(kp.privkey.delta)
      pushed == [self EXCEPT !.contributions = Append(@, kp.pubkey)]
  IN IF ~delta_inv.some
     THEN [status |-> "Panic", self |-> pushed, ret |-> <<>>]
     ELSE [status |-> "Ok",
           self |->
             [pushed EXCEPT
                !.params.l = batch_exp(@, delta_inv.v),
                !.params.h = batch_exp(@, delta_inv.v),
                !.params.vk.delta_g1 = PointMul(@, kp.privkey.delta),
                !.params.vk.delta_g2 = PointMul(@, kp.privkey.delta)],
           ret |-> pubkey_hash(kp.pubkey)]

\* contribute: the new value of self and the returned hash, or a panic
\* (the expect on the inverse of delta) with self as it was.
contribute(self, delta, s) ==
  LET kp == keypair(delta, s, self)
      delta_inv == invert(kp.privkey.delta)
  IN IF ~delta_inv.some
     THEN [status |-> "Panic", self |-> self, ret |-> <<>>]
     ELSE [status |-> "Ok",
           self |->
             [self EXCEPT
                !.params.l = batch_exp(@, delta_inv.v),
                !.params.h = batch_exp(@, delta_inv.v),
                !.params.vk.delta_g1 = PointMul(@, kp.privkey.delta),
                !.params.vk.delta_g2 = PointMul(@, kp.privkey.delta),
                !.contributions = Append(@, kp.pubkey)],
           ret |-> pubkey_hash(kp.pubkey)]

(***************************************************************************)
(* merge_pairs.  Each worker's thread_rng yields one scalar rho per index; *)
(* an rng is a seed <<a, b>> whose j-th scalar is a*j + b.                 *)
(***************************************************************************)
Rngs == {0, 1} \X Fr
Rho(rng, j) == (rng[1] * j + rng[2]) % R

RECURSIVE merge_sum(_, _, _, _)
merge_sum(v, rng, offset, j) ==
  IF j > Len(v) THEN Identity
  ELSE PointAdd(PointMul(v[j], Rho(rng, offset + j)),
                merge_sum(v, rng, offset, j + 1))

\* The pair (sum rho_j * v1_j, sum rho_j * v2_j); the assert_eq on the
\* lengths panics when they differ.
merge_pairs(v1, v2, rng, offset) ==
  IF Len(v1) # Len(v2) THEN [panic |-> TRUE, pair |-> <<Identity, Identity>>]
  ELSE [panic |-> FALSE,
        pair |-> <<merge_sum(v1, rng, offset, 1), merge_sum(v2, rng, offset, 1)>>]

(***************************************************************************)
(* verify_contribution and MPCParameters::verify.  A result is Ok with the *)
(* value, or Err(()); "at" names the check that returned the Err.          *)
(***************************************************************************)
VOk(v) == [status |-> "Ok", v |-> v, at |-> ""]
VErr(at) == [status |-> "Err", v |-> <<>>, at |-> at]
VPanic(at) == [status |-> "Panic", v |-> <<>>, at |-> at]

\* The checks of one public key against the delta and the transcript that
\* precede it (both verifiers apply them).
\* check_pubkey that checks the change of delta only: neither the transcript
\* nor the signature of knowledge of s.
check_pubkey_delta_only(pubkey, h, delta_before) ==
  LET r == hash_to_g2(h)
  IN IF ~same_ratio(<<delta_before, pubkey.delta_after>>, <<r, pubkey.r_delta>>)
     THEN "delta change"
     ELSE ""

\* check_pubkey without the comparison of the transcript.
check_pubkey_no_transcript(pubkey, h, delta_before) ==
  LET r == hash_to_g2(h)
  IN IF ~same_ratio(<<r, pubkey.r_delta>>, <<pubkey.s, pubkey.s_delta>>)
     THEN "signature of knowledge"
     ELSE IF ~same_ratio(<<delta_before, pubkey.delta_after>>, <<r, pubkey.r_delta>>)
     THEN "delta change"
     ELSE ""

check_pubkey(pubkey, h, delta_before) ==
  LET r == hash_to_g2(h)
  IN IF pubkey.transcript # h THEN "transcript"
     ELSE IF ~same_ratio(<<r, pubkey.r_delta>>, <<pubkey.s, pubkey.s_delta>>)
     THEN "signature of knowledge"
     ELSE IF ~same_ratio(<<delta_before, pubkey.delta_after>>, <<r, pubkey.r_delta>>)
     THEN "delta change"
     ELSE ""

\* check_queries without the check of the L query.
check_queries_h_only(before_params, after_params, before_delta_g2, rng) ==
  LET mh == merge_pairs(before_params.h, after_params.h, rng, 0)
  IN IF mh.panic THEN VPanic("merge_pairs H")
     ELSE IF ~same_ratio(mh.pair, <<after_params.vk.delta_g2, before_delta_g2>>)
     THEN VErr("H query")
     ELSE VOk(<<>>)

\* The two randomized checks of the H and L queries.
check_queries(before_params, after_params, before_delta_g2, rng) ==
  LET mh == merge_pairs(before_params.h, after_params.h, rng, 0)
      ml == merge_pairs(before_params.l, after_params.l, rng, Len(before_params.h))
  IN IF mh.panic THEN VPanic("merge_pairs H")
     ELSE IF ~same_ratio(mh.pair, <<after_params.vk.delta_g2, before_delta_g2>>)
     THEN VErr("H query")
     ELSE IF ml.panic THEN VPanic("merge_pairs L")
     ELSE IF ~same_ratio(ml.pair, <<after_params.vk.delta_g2, before_delta_g2>>)
     THEN VErr("L query")
     ELSE VOk(<<>>)

\* check_frozen without the comparison of IC.
check_frozen_no_ic(b, a) ==
  IF Len(b.params.h) # Len(a.params.h) THEN "h length"
  ELSE IF Len(b.params.l) # Len(a.params.l) THEN "l length"
  ELSE IF b.params.a # a.params.a THEN "a"
  ELSE IF b.params.b_g1 # a.params.b_g1 THEN "b_g1"
  ELSE IF b.params.b_g2 # a.params.b_g2 THEN "b_g2"
  ELSE IF b.params.vk.alpha_g1 # a.params.vk.alpha_g1 THEN "alpha_g1"
  ELSE IF b.params.vk.beta_g1 # a.params.vk.beta_g1 THEN "beta_g1"
  ELSE IF b.params.vk.beta_g2 # a.params.vk.beta_g2 THEN "beta_g2"
  ELSE IF b.params.vk.gamma_g2 # a.params.vk.gamma_g2 THEN "gamma_g2"
  ELSE IF b.cs_hash # a.cs_hash THEN "cs_hash"
  ELSE ""

\* The frozen fields, compared in the order of the source.
check_frozen(b, a) ==
  IF Len(b.params.h) # Len(a.params.h) THEN "h length"
  ELSE IF Len(b.params.l) # Len(a.params.l) THEN "l length"
  ELSE IF b.params.a # a.params.a THEN "a"
  ELSE IF b.params.b_g1 # a.params.b_g1 THEN "b_g1"
  ELSE IF b.params.b_g2 # a.params.b_g2 THEN "b_g2"
  ELSE IF b.params.vk.alpha_g1 # a.params.vk.alpha_g1 THEN "alpha_g1"
  ELSE IF b.params.vk.beta_g1 # a.params.vk.beta_g1 THEN "beta_g1"
  ELSE IF b.params.vk.beta_g2 # a.params.vk.beta_g2 THEN "beta_g2"
  ELSE IF b.params.vk.gamma_g2 # a.params.vk.gamma_g2 THEN "gamma_g2"
  ELSE IF b.params.vk.ic # a.params.vk.ic THEN "ic"
  ELSE IF b.cs_hash # a.cs_hash THEN "cs_hash"
  ELSE ""

\* verify_contribution without the comparison of the earlier public keys.
verify_contribution_no_prefix(before, after, rng) ==
  IF Len(after.contributions) # Len(before.contributions) + 1
  THEN VErr("single new object") ELSE
  IF check_frozen(before, after) # "" THEN VErr(check_frozen(before, after)) ELSE
  LET pubkey == after.contributions[Len(after.contributions)]
      h == transcript_hash(before.cs_hash, before.contributions,
                           pubkey.s, pubkey.s_delta)
      pk == check_pubkey(pubkey, h, before.params.vk.delta_g1)
  IN IF pk # "" THEN VErr(pk) ELSE
     IF pubkey.delta_after # after.params.vk.delta_g1 THEN VErr("delta_g1") ELSE
     IF ~same_ratio(<<G1Generator, pubkey.delta_after>>,
                    <<G2Generator, after.params.vk.delta_g2>>)
     THEN VErr("delta_g2") ELSE
     LET q == check_queries(before.params, after.params,
                            before.params.vk.delta_g2, rng)
     IN IF q.status # "Ok" THEN q ELSE VOk(pubkey_hash(pubkey))

\* verify_contribution without the comparison of the numbers of contributions.
verify_contribution_no_count(before, after, rng) ==
  IF Len(before.contributions) > Len(after.contributions)
  THEN VPanic("slice") ELSE
  IF before.contributions # SubSeq(after.contributions, 1, Len(before.contributions))
  THEN VErr("previous transformations") ELSE
  IF check_frozen(before, after) # "" THEN VErr(check_frozen(before, after)) ELSE
  IF after.contributions = <<>> THEN VPanic("last") ELSE
  LET pubkey == after.contributions[Len(after.contributions)]
      h == transcript_hash(before.cs_hash, before.contributions,
                           pubkey.s, pubkey.s_delta)
      pk == check_pubkey(pubkey, h, before.params.vk.delta_g1)
  IN IF pk # "" THEN VErr(pk) ELSE
     IF pubkey.delta_after # after.params.vk.delta_g1 THEN VErr("delta_g1") ELSE
     IF ~same_ratio(<<G1Generator, pubkey.delta_after>>,
                    <<G2Generator, after.params.vk.delta_g2>>)
     THEN VErr("delta_g2") ELSE
     LET q == check_queries(before.params, after.params,
                            before.params.vk.delta_g2, rng)
     IN IF q.status # "Ok" THEN q ELSE VOk(pubkey_hash(pubkey))

\* The slice after.contributions[0..before.contributions.len()] panics when
\* its end is out of range, the unwrap of last() when the list is empty,
\* and merge_pairs when its two arguments differ in length.
verify_contribution(before, after, rng) ==
  IF Len(after.contributions) # Len(before.contributions) + 1
  THEN VErr("single new object") ELSE
  IF Len(before.contributions) > Len(after.contributions)
  THEN VPanic("slice") ELSE
  IF before.contributions # SubSeq(after.contributions, 1, Len(before.contributions))
  THEN VErr("previous transformations") ELSE
  IF check_frozen(before, after) # "" THEN VErr(check_frozen(before, after)) ELSE
  IF after.contributions = <<>> THEN VPanic("last") ELSE
  LET pubkey == after.contributions[Len(after.contributions)]
      h == transcript_hash(before.cs_hash, before.contributions,
                           pubkey.s, pubkey.s_delta)
      pk == check_pubkey(pubkey, h, before.params.vk.delta_g1)
  IN IF pk # "" THEN VErr(pk) ELSE
     IF pubkey.delta_after # after.params.vk.delta_g1 THEN VErr("delta_g1") ELSE
     IF ~same_ratio(<<G1Generator, pubkey.delta_after>>,
                    <<G2Generator, after.params.vk.delta_g2>>)
     THEN VErr("delta_g2") ELSE
     LET q == check_queries(before.params, after.params,
                            before.params.vk.delta_g2, rng)
     IN IF q.status # "Ok" THEN q ELSE VOk(pubkey_hash(pubkey))

\* verify's loop that leaves current_delta as it is.
RECURSIVE verify_loop_stale_delta(_, _, _, _, _)
verify_loop_stale_delta(contributions, i, sink, current_delta, result) ==
  IF i > Len(contributions)
  THEN [at |-> "", current_delta |-> current_delta, result |-> result,
        hashes |-> <<>>]
  ELSE LET pubkey == contributions[i]
           our_sink0 == HashWriter_clone(sink)
           our_sink1 == HashWriter_write(our_sink0, G1ToUncompressed(pubkey.s))
           our_sink2 == HashWriter_write(our_sink1, G1ToUncompressed(pubkey.s_delta))
           sink1 == HashWriter_write(sink, PublicKey_write(pubkey))
           h == into_hash(our_sink2)
           pk == check_pubkey(pubkey, h, current_delta)
       IN IF pk # ""
          THEN [at |-> pk, current_delta |-> current_delta, result |-> result,
                hashes |-> <<h>>]
          ELSE [verify_loop_stale_delta(contributions, i + 1, sink1, current_delta,
                            Append(result, pubkey_hash(pubkey)))
                  EXCEPT !.hashes = <<h>> \o @]

\* verify's loop over self.contributions from position i: sink holds
\* cs_hash and the public keys before i, current_delta the delta before i.
\* hashes lists the h of every iteration the loop made.
RECURSIVE verify_loop(_, _, _, _, _)
verify_loop(contributions, i, sink, current_delta, result) ==
  IF i > Len(contributions)
  THEN [at |-> "", current_delta |-> current_delta, result |-> result,
        hashes |-> <<>>]
  ELSE LET pubkey == contributions[i]
           our_sink0 == HashWriter_clone(sink)
           our_sink1 == HashWriter_write(our_sink0, G1ToUncompressed(pubkey.s))
           our_sink2 == HashWriter_write(our_sink1, G1ToUncompressed(pubkey.s_delta))
           sink1 == HashWriter_write(sink, PublicKey_write(pubkey))
           h == into_hash(our_sink2)
           pk == check_pubkey(pubkey, h, current_delta)
       IN IF pk # ""
          THEN [at |-> pk, current_delta |-> current_delta, result |-> result,
                hashes |-> <<h>>]
          ELSE [verify_loop(contributions, i + 1, sink1, pubkey.delta_after,
                            Append(result, pubkey_hash(pubkey)))
                  EXCEPT !.hashes = <<h>> \o @]

\* verify without the pairing check of delta_g1 against delta_g2.
verify_against_no_pairing(self, initial, rng) ==
  IF initial.status = "Panic" THEN VPanic("new") ELSE
  IF initial.status # "Ok" THEN VErr("new") ELSE
  LET initial_params == initial.v IN
  IF check_frozen(initial_params, self) # ""
  THEN VErr(check_frozen(initial_params, self)) ELSE
  LET sink == HashWriter_write(HashWriter_new, WriteDigest(initial_params.cs_hash))
      loop == verify_loop(self.contributions, 1, sink, G1Generator, <<>>)
  IN IF loop.at # "" THEN VErr(loop.at) ELSE
     IF loop.current_delta # self.params.vk.delta_g1 THEN VErr("delta_g1") ELSE
     LET q == check_queries(initial_params.params, self.params, G2Generator, rng)
     IN IF q.status # "Ok" THEN q ELSE VOk(loop.result)

\* verify that does not compare the last delta_after with delta_g1.
verify_against_no_delta_g1(self, initial, rng) ==
  IF initial.status = "Panic" THEN VPanic("new") ELSE
  IF initial.status # "Ok" THEN VErr("new") ELSE
  LET initial_params == initial.v IN
  IF check_frozen(initial_params, self) # ""
  THEN VErr(check_frozen(initial_params, self)) ELSE
  LET sink == HashWriter_write(HashWriter_new, WriteDigest(initial_params.cs_hash))
      loop == verify_loop(self.contributions, 1, sink, G1Generator, <<>>)
  IN IF loop.at # "" THEN VErr(loop.at) ELSE
     IF ~same_ratio(<<G1Generator, loop.current_delta>>,
                    <<G2Generator, self.params.vk.delta_g2>>)
     THEN VErr("delta_g2") ELSE
     LET q == check_queries(initial_params.params, self.params, G2Generator, rng)
     IN IF q.status # "Ok" THEN q ELSE VOk(loop.result)

\* verify against the parameters new returned for the circuit.
verify_against(self, initial, rng) ==
  IF initial.status = "Panic" THEN VPanic("new") ELSE
  IF initial.status # "Ok" THEN VErr("new") ELSE
  LET initial_params == initial.v IN
  IF check_frozen(initial_params, self) # ""
  THEN VErr(check_frozen(initial_params, self)) ELSE
  LET sink == HashWriter_write(HashWriter_new, WriteDigest(initial_params.cs_hash))
      loop == verify_loop(self.contributions, 1, sink, G1Generator, <<>>)
  IN IF loop.at # "" THEN VErr(loop.at) ELSE
     IF loop.current_delta # self.params.vk.delta_g1 THEN VErr("delta_g1") ELSE
     IF ~same_ratio(<<G1Generator, loop.current_delta>>,
                    <<G2Generator, self.params.vk.delta_g2>>)
     THEN VErr("delta_g2") ELSE
     LET q == check_queries(initial_params.params, self.params, G2Generator, rng)
     IN IF q.status # "Ok" THEN q ELSE VOk(loop.result)

\* MPCParameters::verify for the circuit with index c of Circuits.
verify(self, c, rng) == verify_against(self, InitialParams[c], rng)

\* contains_contribution that looks at the first hash only.
contains_contribution_first(contributions, my_contribution) ==
  contributions # <<>> /\ Head(contributions) = my_contribution

\* contains_contribution: the loop over the hashes, true at the first equal
\* one.
RECURSIVE contains_contribution(_, _)
contains_contribution(contributions, my_contribution) ==
  IF contributions = <<>> THEN FALSE
  ELSE IF Head(contributions) = my_contribution THEN TRUE
  ELSE contains_contribution(Tail(contributions), my_contribution)

(***************************************************************************)
(* The ceremony.                                                           *)
(***************************************************************************)
VARIABLES
  circuit,     \* index in Circuits of the circuit new was called with, 0 before
  params,      \* the MPCParameters the participants pass on
  before,      \* the clone of params taken before the last contribute
  receipts,    \* the hashes the contribute calls returned, in order
  privkeys,    \* the delta of every completed contribute call, in order
  wire,        \* the bytes written by write and not yet read
  domain,      \* the evaluation domain the last new computed
  outcome,     \* the last operation and how it ended
  merge,       \* the merge_pairs call in progress: its workers and accumulators
  batch,       \* the batch_exp call in progress: its workers and arrays
  keypair_assembly     \* the KeypairAssembly a circuit is being synthesized into

vars ==
  <<circuit, params, before, receipts, privkeys, wire, domain, outcome,
    merge, batch, keypair_assembly>>

\* The variables of the ceremony.
ceremony == <<circuit, params, before, receipts, privkeys, wire, domain, outcome>>

\* No call of merge_pairs or of batch_exp in progress, no assembly.
NoMerge == [main |-> "none"]
NoBatch == [main |-> "none"]
NoAssembly == [status |-> "none"]

Outcome(op, status) == [op |-> op, status |-> status]

Init ==
  /\ circuit = 0
  /\ params = NoMPCParameters
  /\ before = NoMPCParameters
  /\ receipts = <<>>
  /\ privkeys = <<>>
  /\ wire = <<>>
  /\ domain = NoDomain
  /\ outcome = Outcome("none", "Ok")
  /\ merge = NoMerge
  /\ batch = NoBatch
  /\ keypair_assembly = NoAssembly

\* A value of params exists: new returned Ok.
Live == circuit # 0 /\ InitialParams[circuit].status = "Ok"

New(c) ==
  /\ circuit = 0
  /\ circuit' = c
  /\ params' = InitialParams[c].v
  /\ before' = InitialParams[c].v
  /\ outcome' = Outcome("new", IF InitialParams[c].status = "Ok" THEN "Ok"
                                ELSE InitialParams[c].err)
  /\ domain' = new_domain_of(Circuits[c])
  /\ UNCHANGED <<receipts, privkeys, wire>>
  /\ UNCHANGED <<merge, batch, keypair_assembly>>

Contribute(delta, s) ==
  /\ Live
  /\ wire = <<>>
  /\ Len(params.contributions) < MaxContrib
  /\ LET c == contribute(params, delta, s)
     IN /\ params' = c.self
        /\ outcome' = Outcome("contribute", c.status)
        /\ IF c.status = "Ok"
           THEN /\ before' = params
                /\ receipts' = Append(receipts, c.ret)
                /\ privkeys' = Append(privkeys, delta)
           ELSE UNCHANGED <<before, receipts, privkeys>>
  /\ UNCHANGED <<circuit, wire, domain>>
  /\ UNCHANGED <<merge, batch, keypair_assembly>>

Write ==
  /\ Live
  /\ wire = <<>>
  /\ wire' = MPCParameters_write(params)
  /\ outcome' = Outcome("write", "Ok")
  /\ UNCHANGED <<circuit, params, before, receipts, privkeys, domain>>
  /\ UNCHANGED <<merge, batch, keypair_assembly>>

Read(checked) ==
  /\ wire # <<>>
  /\ LET r == MPCParameters_read(wire, checked)
     IN /\ params' = IF r.ok THEN r.v ELSE params
        /\ outcome' = Outcome("read", IF r.ok THEN "Ok" ELSE "Err")
  /\ wire' = <<>>
  /\ UNCHANGED <<circuit, before, receipts, privkeys, domain>>
  /\ UNCHANGED <<merge, batch, keypair_assembly>>

\* The points the caller's RNG hands to keypair as s: two of the points of G1
\* that are not the identity.
RandomG1 == {G1Generator, PointMul(G1Generator, 2)}

Next ==
  \/ \E c \in 1 .. Len(Circuits) : New(c)
  \/ \E delta \in Fr, s \in RandomG1 : Contribute(delta, s)
  \/ Write
  \/ \E checked \in BOOLEAN : Read(checked)

Spec == Init /\ [][Next]_vars

(***************************************************************************)
(* The ceremony without serialization: new, then contribute calls on the   *)
(* value in memory.                                                        *)
(***************************************************************************)
CeremonyNext ==
  \/ \E c \in 1 .. Len(Circuits) : New(c)
  \/ \E delta \in Fr, s \in RandomG1 : Contribute(delta, s)

CeremonySpec == Init /\ [][CeremonyNext]_vars

(***************************************************************************)
(* Serialization on its own.  A process that holds new(C) is handed the    *)
(* bytes of a file; it reads them, writes what it has read and reads that  *)
(* again, in either mode.  The file is the serialization of a chain of at  *)
(* most MaxContrib honest contributions, as it is or with the coordinates  *)
(* of one point of H, L, A, B_G1 or B_G2 replaced by coordinates of no     *)
(* point of the group.                                                     *)
(***************************************************************************)
InvalidPoint == R + 1

\* The deltas of the chains behind the files.
FileDeltas == {2, 3}

\* The chains of k contributions on new(C) for the circuit with index c.
RECURSIVE Chains(_, _)
Chains(c, k) ==
  IF k = 0 THEN {InitialParams[c].v}
  ELSE {contribute(p, delta, s).self :
          p \in Chains(c, k - 1), delta \in FileDeltas, s \in RandomG1}

\* p with one point of a query replaced by InvalidPoint.
Corruptions(p) ==
  {[p EXCEPT !.params.h[i] = InvalidPoint] : i \in 1 .. Len(p.params.h)}
    \cup {[p EXCEPT !.params.l[i] = InvalidPoint] : i \in 1 .. Len(p.params.l)}
    \cup {[p EXCEPT !.params.a[i] = InvalidPoint] : i \in 1 .. Len(p.params.a)}
    \cup {[p EXCEPT !.params.b_g1[i] = InvalidPoint] : i \in 1 .. Len(p.params.b_g1)}
    \cup {[p EXCEPT !.params.b_g2[i] = InvalidPoint] : i \in 1 .. Len(p.params.b_g2)}

Files(c) ==
  {MPCParameters_write(q) :
     q \in UNION {{p} \cup Corruptions(p) :
                   p \in UNION {Chains(c, k) : k \in 0 .. MaxContrib}}}

SerdeInit ==
  /\ circuit \in {c \in 1 .. Len(Circuits) : InitialParams[c].status = "Ok"}
  /\ params = InitialParams[circuit].v
  /\ before = params
  /\ receipts = <<>>
  /\ privkeys = <<>>
  /\ wire \in Files(circuit)
  /\ domain = new_domain_of(Circuits[circuit])
  /\ outcome = Outcome("none", "Ok")
  /\ merge = NoMerge
  /\ batch = NoBatch
  /\ keypair_assembly = NoAssembly

SerdeNext ==
  \/ Write
  \/ \E checked \in BOOLEAN : Read(checked)

SerdeSpec == SerdeInit /\ [][SerdeNext]_vars

(***************************************************************************)
(* The domain step on its own.  new is called with a circuit of n          *)
(* constraints, the constraints of its inputs included: n is small, or     *)
(* next to one of the five powers of two around 2^MaxExp.                  *)
(***************************************************************************)
MaxConstraints == 40

ConstraintCounts ==
  1 .. MaxConstraints
    \cup {Pow2(k) + d : k \in (MaxExp - 3) .. (MaxExp + 1), d \in {-1, 0, 1}}

DomainInit ==
  /\ circuit = 0
  /\ params = NoMPCParameters
  /\ before = NoMPCParameters
  /\ receipts = <<>>
  /\ privkeys = <<>>
  /\ wire = <<>>
  /\ domain \in {[NoDomain EXCEPT !.n = n] : n \in ConstraintCounts}
  /\ outcome = Outcome("none", "Ok")
  /\ merge = NoMerge
  /\ batch = NoBatch
  /\ keypair_assembly = NoAssembly

Domain ==
  /\ domain.status = "none"
  /\ domain' = new_domain(domain.n)
  /\ outcome' = Outcome("new", IF domain'.status = "Ok" THEN "Ok" ELSE domain'.status)
  /\ UNCHANGED <<circuit, params, before, receipts, privkeys, wire>>
  /\ UNCHANGED <<merge, batch, keypair_assembly>>

DomainNext == Domain

DomainSpec == DomainInit /\ [][DomainNext]_vars

(***************************************************************************)
(* merge_pairs and its workers.  The call splits v1 and v2 into chunks of  *)
(* (len / cpus) + 1 elements and spawns one worker per chunk; a worker     *)
(* draws one scalar per element, adds the two products to its local sums,  *)
(* then adds local_s to s under the mutex of s and local_sx to sx under    *)
(* the mutex of sx.  An add_assign under a mutex is a load and a store.    *)
(***************************************************************************)
MaxMergeLen == 3

\* The points of v1, the points of v2, and the numbers of CPUs
\* num_cpus::get returns.
MergePoints == {1, 2}
MergePoints2 == {3}
CpuCounts == {1, 2, 4}

\* The workers a call can spawn: one per element at most.
MergeWorkers == 1 .. MaxMergeLen

SeqsUpTo(S, n) == UNION {[1 .. k -> S] : k \in 0 .. n}

\* slice::chunks_exact: the chunks of size elements, without the remainder.
chunks_exact(n, size) ==
  [k \in 1 .. (n \div size) |-> <<(k - 1) * size + 1, k * size>>]

\* slice::chunks: the first and the last index of every chunk of size
\* elements of a slice of n elements, the last chunk being the remainder.
chunks(n, size) ==
  [k \in 1 .. ((n + size - 1) \div size) |->
     <<(k - 1) * size + 1, IF k * size < n THEN k * size ELSE n>>]

\* No scalar drawn yet for an index.
NoRho == R

\* The call before it runs.
MergeCall(v1, v2, cpus) ==
  [main |-> "start", v1 |-> v1, v2 |-> v2, cpus |-> cpus,
   span |-> <<>>, pc |-> <<>>, at |-> <<>>, rho |-> <<>>,
   local_s |-> <<>>, local_sx |-> <<>>, tmp |-> <<>>,
   s |-> Identity, sx |-> Identity, lock_s |-> 0, lock_sx |-> 0,
   ret |-> <<>>]

\* Mutex::lock that does not wait for the holder.
lock_unguarded(mutex) == TRUE

\* Mutex::lock returns when no worker holds the mutex.
lock(mutex) == mutex = 0

MergeInit ==
  /\ circuit = 0
  /\ params = NoMPCParameters
  /\ before = NoMPCParameters
  /\ receipts = <<>>
  /\ privkeys = <<>>
  /\ wire = <<>>
  /\ domain = NoDomain
  /\ outcome = Outcome("none", "Ok")
  /\ merge \in {MergeCall(v1, v2, cpus) :
                  v1 \in SeqsUpTo(MergePoints, MaxMergeLen),
                  v2 \in SeqsUpTo(MergePoints2, MaxMergeLen),
                  cpus \in CpuCounts}
  /\ batch = NoBatch
  /\ keypair_assembly = NoAssembly

\* The assert_eq on the lengths, the chunk size, the two accumulators and
\* the spawn of one worker per chunk.
MergeStart ==
  /\ merge.main = "start"
  /\ merge' =
       IF Len(merge.v1) # Len(merge.v2) THEN [merge EXCEPT !.main = "panic"]
       ELSE LET n == Len(merge.v1)
                chunk == (n \div merge.cpus) + 1
                span == chunks(n, chunk)
                W == Len(span)
            IN [merge EXCEPT
                  !.main = "scope",
                  !.span = span,
                  !.pc = [w \in 1 .. W |-> "sum"],
                  !.at = [w \in 1 .. W |-> span[w][1]],
                  !.rho = [j \in 1 .. n |-> NoRho],
                  !.local_s = [w \in 1 .. W |-> Identity],
                  !.local_sx = [w \in 1 .. W |-> Identity],
                  !.tmp = [w \in 1 .. W |-> Identity]]
  /\ UNCHANGED <<ceremony, batch, keypair_assembly>>

\* One round of worker w's loop: a scalar rho for the element, and the two
\* products added to the local sums.
MergeSum(w, rho) ==
  /\ merge.main = "scope"
  /\ w \in DOMAIN merge.pc
  /\ merge.pc[w] = "sum"
  /\ LET j == merge.at[w]
     IN merge' =
          [merge EXCEPT
             !.rho[j] = rho,
             !.local_s[w] = PointAdd(@, PointMul(merge.v1[j], rho)),
             !.local_sx[w] = PointAdd(@, PointMul(merge.v2[j], rho)),
             !.at[w] = j + 1,
             !.pc[w] = IF j = merge.span[w][2] THEN "lock_s" ELSE "sum"]
  /\ UNCHANGED <<ceremony, batch, keypair_assembly>>

\* s.lock().unwrap().add_assign(&local_s): the lock, the load, and the store
\* with the release of the guard.
MergeLock_s(w) ==
  /\ merge.main = "scope"
  /\ w \in DOMAIN merge.pc
  /\ merge.pc[w] = "lock_s"
  /\ lock(merge.lock_s)
  /\ merge' = [merge EXCEPT !.lock_s = w, !.pc[w] = "load_s"]
  /\ UNCHANGED <<ceremony, batch, keypair_assembly>>

MergeLoad_s(w) ==
  /\ merge.main = "scope"
  /\ w \in DOMAIN merge.pc
  /\ merge.pc[w] = "load_s"
  /\ merge' = [merge EXCEPT !.tmp[w] = merge.s, !.pc[w] = "store_s"]
  /\ UNCHANGED <<ceremony, batch, keypair_assembly>>

MergeStore_s(w) ==
  /\ merge.main = "scope"
  /\ w \in DOMAIN merge.pc
  /\ merge.pc[w] = "store_s"
  /\ merge' = [merge EXCEPT !.s = PointAdd(merge.tmp[w], merge.local_s[w]),
                            !.lock_s = 0,
                            !.pc[w] = "lock_sx"]
  /\ UNCHANGED <<ceremony, batch, keypair_assembly>>

\* sx.lock().unwrap().add_assign(&local_sx), in the same three steps.
MergeLock_sx(w) ==
  /\ merge.main = "scope"
  /\ w \in DOMAIN merge.pc
  /\ merge.pc[w] = "lock_sx"
  /\ lock(merge.lock_sx)
  /\ merge' = [merge EXCEPT !.lock_sx = w, !.pc[w] = "load_sx"]
  /\ UNCHANGED <<ceremony, batch, keypair_assembly>>

MergeLoad_sx(w) ==
  /\ merge.main = "scope"
  /\ w \in DOMAIN merge.pc
  /\ merge.pc[w] = "load_sx"
  /\ merge' = [merge EXCEPT !.tmp[w] = merge.sx, !.pc[w] = "store_sx"]
  /\ UNCHANGED <<ceremony, batch, keypair_assembly>>

MergeStore_sx(w) ==
  /\ merge.main = "scope"
  /\ w \in DOMAIN merge.pc
  /\ merge.pc[w] = "store_sx"
  /\ merge' = [merge EXCEPT !.sx = PointAdd(merge.tmp[w], merge.local_sx[w]),
                            !.lock_sx = 0,
                            !.pc[w] = "done"]
  /\ UNCHANGED <<ceremony, batch, keypair_assembly>>

\* The scope has joined every worker: the pair of the two accumulators.
MergeReturn ==
  /\ merge.main = "scope"
  /\ \A w \in 1 .. Len(merge.pc) : merge.pc[w] = "done"
  /\ merge' = [merge EXCEPT !.main = "returned", !.ret = <<merge.s, merge.sx>>]
  /\ UNCHANGED <<ceremony, batch, keypair_assembly>>

MergeNext ==
  \/ MergeStart
  \/ \E w \in MergeWorkers, rho \in Fr : MergeSum(w, rho)
  \/ \E w \in MergeWorkers : MergeLock_s(w)
  \/ \E w \in MergeWorkers : MergeLoad_s(w)
  \/ \E w \in MergeWorkers : MergeStore_s(w)
  \/ \E w \in MergeWorkers : MergeLock_sx(w)
  \/ \E w \in MergeWorkers : MergeLoad_sx(w)
  \/ \E w \in MergeWorkers : MergeStore_sx(w)
  \/ MergeReturn

MergeSpec == MergeInit /\ [][MergeNext]_vars

(***************************************************************************)
(* contribute's batch_exp and its workers.  The first scope spawns one     *)
(* worker per chunk of bases and of projective, which writes coeff times   *)
(* each base of its chunk into projective; the second scope, entered when  *)
(* the first has joined its workers, spawns one worker per chunk of        *)
(* projective, which normalizes it; the loop after it copies projective    *)
(* into bases.  A projective point is its point and whether its            *)
(* representation is normalized.                                           *)
(***************************************************************************)
MaxBatchLen == 5

BatchWorkers == 1 .. MaxBatchLen

Projective(p, normal) == [p |-> p, normal |-> normal]
to_affine(proj) == proj.p

\* batch_normalization of one projective point.
batch_normalization(proj) == Projective(proj.p, TRUE)

\* The chunk size of batch_exp.
chunk_size(len, cpus) == IF len < cpus THEN 1 ELSE len \div cpus

\* A scope that returns when one of its workers has returned.
scope_joined_any(pc) == \E w \in DOMAIN pc : pc[w] = "returned"

\* A scope returns when every worker it spawned has returned.
scope_joined(pc) == \A w \in DOMAIN pc : pc[w] = "returned"

\* The call before it runs: arg is the array the caller passes, bases the
\* array as the call has it.
BatchCall(bases, coeff, cpus) ==
  [main |-> "start", arg |-> bases, bases |-> bases, coeff |-> coeff,
   cpus |-> cpus, span |-> <<>>, projective |-> <<>>, pc |-> <<>>, at |-> <<>>]

BatchInit ==
  /\ circuit = 0
  /\ params = NoMPCParameters
  /\ before = NoMPCParameters
  /\ receipts = <<>>
  /\ privkeys = <<>>
  /\ wire = <<>>
  /\ domain = NoDomain
  /\ outcome = Outcome("none", "Ok")
  /\ merge = NoMerge
  /\ batch \in {BatchCall(bases, coeff, cpus) :
                  bases \in SeqsUpTo(MergePoints, MaxBatchLen),
                  coeff \in Fr,
                  cpus \in CpuCounts}
  /\ keypair_assembly = NoAssembly

\* projective, the chunk size, and the spawn of the multiplication workers.
BatchStart ==
  /\ batch.main = "start"
  /\ LET n == Len(batch.bases)
         span == chunks(n, chunk_size(n, batch.cpus))
     IN batch' =
          [batch EXCEPT
             !.main = "multiply",
             !.span = span,
             !.projective = [i \in 1 .. n |-> Projective(Identity, FALSE)],
             !.pc = [w \in 1 .. Len(span) |-> "running"],
             !.at = [w \in 1 .. Len(span) |-> span[w][1]]]
  /\ UNCHANGED <<ceremony, merge, keypair_assembly>>

\* One round of the loop of multiplication worker w.
BatchMultiply(w) ==
  /\ batch.main = "multiply"
  /\ w \in DOMAIN batch.pc
  /\ batch.pc[w] = "running"
  /\ LET i == batch.at[w]
     IN batch' =
          [batch EXCEPT
             !.projective[i] = Projective(PointMul(batch.bases[i], batch.coeff), FALSE),
             !.at[w] = i + 1,
             !.pc[w] = IF i = batch.span[w][2] THEN "returned" ELSE "running"]
  /\ UNCHANGED <<ceremony, merge, keypair_assembly>>

\* The first scope returns, the second spawns the normalization workers.
BatchJoin ==
  /\ batch.main = "multiply"
  /\ scope_joined(batch.pc)
  /\ batch' = [batch EXCEPT !.main = "normalize",
                            !.pc = [w \in DOMAIN batch.pc |-> "running"]]
  /\ UNCHANGED <<ceremony, merge, keypair_assembly>>

\* Normalization worker w: batch_normalization of its chunk.
BatchNormalize(w) ==
  /\ batch.main = "normalize"
  /\ w \in DOMAIN batch.pc
  /\ batch.pc[w] = "running"
  /\ batch' =
       [batch EXCEPT
          !.projective =
             [i \in DOMAIN @ |->
                IF batch.span[w][1] <= i /\ i <= batch.span[w][2]
                THEN batch_normalization(@[i]) ELSE @[i]],
          !.pc[w] = "returned"]
  /\ UNCHANGED <<ceremony, merge, keypair_assembly>>

\* The second scope returns and the loop turns projective back into bases.
BatchReturn ==
  /\ batch.main = "normalize"
  /\ scope_joined(batch.pc)
  /\ batch' =
       [batch EXCEPT
          !.main = "returned",
          !.bases = [i \in DOMAIN @ |-> to_affine(batch.projective[i])]]
  /\ UNCHANGED <<ceremony, merge, keypair_assembly>>

BatchNext ==
  \/ BatchStart
  \/ \E w \in BatchWorkers : BatchMultiply(w)
  \/ BatchJoin
  \/ \E w \in BatchWorkers : BatchNormalize(w)
  \/ BatchReturn

BatchSpec == BatchInit /\ [][BatchNext]_vars

(***************************************************************************)
(* MPCParameters::contribute as it runs.  The caller's RNG is the stream   *)
(* <<delta, s>> of what it yields to Scalar::random and then to            *)
(* G1Projective::random; params is self, before is self as the call found  *)
(* it; l and h are the two local vectors, each handed to batch_exp, whose   *)
(* workers run on cpus CPUs.                                               *)
(***************************************************************************)
ContributeCall(rng, cpus) ==
  [main |-> "contribute", arg |-> <<>>, bases |-> <<>>, coeff |-> 0,
   cpus |-> cpus, span |-> <<>>, projective |-> <<>>, pc |-> <<>>, at |-> <<>>,
   rng |-> rng, local |-> "", l |-> <<>>, h |-> <<>>,
   pubkey |-> keypair(0, Identity, NoMPCParameters).pubkey, delta |-> 0]

ContributeInit ==
  /\ circuit \in {c \in 1 .. Len(Circuits) : InitialParams[c].status = "Ok"}
  /\ params \in {InitialParams[circuit].v,
                 contribute(InitialParams[circuit].v, 2, G1Generator).self}
  /\ before = params
  /\ receipts = <<>>
  /\ privkeys = <<>>
  /\ wire = <<>>
  /\ domain = NoDomain
  /\ outcome = Outcome("none", "Ok")
  /\ merge = NoMerge
  /\ batch \in {ContributeCall(rng, cpus) : rng \in Fr \X RandomG1, cpus \in CpuCounts}
  /\ keypair_assembly = NoAssembly

\* keypair, the expect on the inverse of delta, the two copies l and h,
\* and the call of batch_exp on l.
ContributeKeypair ==
  /\ batch.main = "contribute"
  /\ LET kp == keypair(batch.rng[1], batch.rng[2], params)
         delta_inv == invert(kp.privkey.delta)
     IN IF ~delta_inv.some
        THEN /\ batch' = [batch EXCEPT !.main = "panicked"]
             /\ outcome' = Outcome("contribute", "Panic")
        ELSE /\ batch' =
                  [batch EXCEPT
                     !.main = "start", !.local = "l",
                     !.arg = params.params.l, !.bases = params.params.l,
                     !.coeff = delta_inv.v,
                     !.l = params.params.l, !.h = params.params.h,
                     !.pubkey = kp.pubkey, !.delta = kp.privkey.delta]
             /\ UNCHANGED outcome
  /\ UNCHANGED <<circuit, params, before, receipts, privkeys, wire, domain>>
  /\ UNCHANGED <<merge, keypair_assembly>>

\* batch_exp of l has returned: the call of batch_exp on h.
ContributeBatchExpH ==
  /\ batch.main = "returned"
  /\ batch.local = "l"
  /\ batch' =
       [batch EXCEPT
          !.main = "start", !.local = "h",
          !.l = batch.bases,
          !.arg = batch.h, !.bases = batch.h,
          !.span = <<>>, !.projective = <<>>, !.pc = <<>>, !.at = <<>>]
  /\ UNCHANGED <<ceremony, merge, keypair_assembly>>

\* batch_exp of h has returned: the stores into self.params, the push of
\* the public key and the hash contribute returns.
ContributeReturn ==
  /\ batch.main = "returned"
  /\ batch.local = "h"
  /\ batch' = [batch EXCEPT !.main = "done", !.h = batch.bases]
  /\ params' =
       [params EXCEPT
          !.params.l = batch.l,
          !.params.h = batch.bases,
          !.params.vk.delta_g1 = PointMul(@, batch.delta),
          !.params.vk.delta_g2 = PointMul(@, batch.delta),
          !.contributions = Append(@, batch.pubkey)]
  /\ receipts' = Append(receipts, pubkey_hash(batch.pubkey))
  /\ privkeys' = Append(privkeys, batch.delta)
  /\ outcome' = Outcome("contribute", "Ok")
  /\ UNCHANGED <<circuit, before, wire, domain>>
  /\ UNCHANGED <<merge, keypair_assembly>>

ContributeNext ==
  \/ ContributeKeypair
  \/ BatchStart
  \/ \E w \in BatchWorkers : BatchMultiply(w)
  \/ BatchJoin
  \/ \E w \in BatchWorkers : BatchNormalize(w)
  \/ BatchReturn
  \/ ContributeBatchExpH
  \/ ContributeReturn

ContributeSpec == ContributeInit /\ [][ContributeNext]_vars

(***************************************************************************)
(* A KeypairAssembly under the calls of new and of a circuit's synthesize. *)
(* new allocates the input "one"; synthesize then calls alloc,             *)
(* alloc_input, enforce, push_namespace and pop_namespace in any order,    *)
(* with linear combinations over the variables it was given; when it       *)
(* returns, new enforces the constraints of the inputs, computes the       *)
(* domain and evaluates the QAP.                                           *)
(***************************************************************************)
MaxCalls == 3

\* The coefficients of the terms of C; the terms of A and B have 1.
AssemblyCoeffs == {1, 4}

NoVariable == [kind |-> "none", id |-> 0]

\* The variables the assembly has given out.
Allocated(cs) ==
  {Input(i) : i \in 0 .. (cs.num_inputs - 1)} \cup {Aux(j) : j \in 0 .. (cs.num_aux - 1)}

\* The linear combinations of at most n terms over the variables vs with
\* the coefficients cf.
LinearCombinations(vs, cf, n) == SeqsUpTo({Term(v, k) : v \in vs, k \in cf}, n)

\* The linear combinations synthesize enforces over the variables vs: up
\* to two terms in A alone, up to a term in each of B and C, and
\* (v + v) * v = 4v.
EnforceArgs(vs) ==
  {<<a, <<>>, <<>>>> : a \in LinearCombinations(vs, {1}, 2)}
    \cup {<<<<>>, bc[1], bc[2]>> :
            bc \in LinearCombinations(vs, {1}, 1)
                     \X LinearCombinations(vs, AssemblyCoeffs, 1)}
    \cup {<<<<Term(v, 1), Term(v, 1)>>, <<Term(v, 1)>>, <<Term(v, 4)>>>> : v \in vs}

\* The assembly, the last call on it with its linear combinations and the
\* variable it returned, the number of calls of synthesize, the assembly as
\* synthesize left it and the result of new.
AssemblyState(status, cs, last, args, ret, calls, synthesized, result) ==
  [status |-> status, cs |-> cs, last |-> last, args |-> args, ret |-> ret,
   calls |-> calls, synthesized |-> synthesized, result |-> result]

NoResult == [status |-> "none", err |-> "", v |-> NoMPCParameters]

AssemblyInit ==
  /\ circuit = 0
  /\ params = NoMPCParameters
  /\ before = NoMPCParameters
  /\ receipts = <<>>
  /\ privkeys = <<>>
  /\ wire = <<>>
  /\ domain = NoDomain
  /\ outcome = Outcome("none", "Ok")
  /\ merge = NoMerge
  /\ batch = NoBatch
  /\ keypair_assembly =
       AssemblyState("new", KeypairAssembly_new, "none", <<>>, NoVariable, 0,
                     KeypairAssembly_new, NoResult)

\* new allocates the input "one" and calls synthesize.
AllocOne ==
  /\ keypair_assembly.status = "new"
  /\ keypair_assembly' =
       [keypair_assembly EXCEPT
          !.status = "synthesize",
          !.cs = alloc_input(@),
          !.last = "alloc_input",
          !.ret = alloc_input_ret(keypair_assembly.cs)]
  /\ UNCHANGED <<ceremony, merge, batch>>

\* A call of synthesize on the assembly.
Called(op, args, cs, ret) ==
  /\ keypair_assembly.status = "synthesize"
  /\ keypair_assembly.calls < MaxCalls
  /\ keypair_assembly' =
       [keypair_assembly EXCEPT
          !.cs = cs, !.last = op, !.args = args, !.ret = ret, !.calls = @ + 1]
  /\ UNCHANGED <<ceremony, merge, batch>>

Alloc ==
  Called("alloc", <<>>, alloc(keypair_assembly.cs), alloc_ret(keypair_assembly.cs))

AllocInput ==
  Called("alloc_input", <<>>, alloc_input(keypair_assembly.cs),
         alloc_input_ret(keypair_assembly.cs))

Enforce(a, b, c) ==
  Called("enforce", <<a, b, c>>, enforce(keypair_assembly.cs, a, b, c), NoVariable)

PushNamespace ==
  Called("push_namespace", <<>>, push_namespace(keypair_assembly.cs), NoVariable)

PopNamespace ==
  Called("pop_namespace", <<>>, pop_namespace(keypair_assembly.cs), NoVariable)

\* synthesize returns Ok: the rest of new.
Synthesized ==
  /\ keypair_assembly.status = "synthesize"
  /\ keypair_assembly' =
       [keypair_assembly EXCEPT
          !.status = "returned",
          !.last = "new",
          !.args = <<>>,
          !.ret = NoVariable,
          !.synthesized = keypair_assembly.cs,
          !.cs = input_constraints(@, 0, @.num_inputs),
          !.result = new_after_synthesize(keypair_assembly.cs)]
  /\ UNCHANGED <<ceremony, merge, batch>>

AssemblyNext ==
  \/ AllocOne
  \/ Alloc
  \/ AllocInput
  \/ \E abc \in EnforceArgs(Allocated(keypair_assembly.cs)) :
       Enforce(abc[1], abc[2], abc[3])
  \/ PushNamespace
  \/ PopNamespace
  \/ Synthesized

AssemblySpec == AssemblyInit /\ [][AssemblyNext]_vars

(***************************************************************************)
(* Definitions used to state the properties.                               *)
(***************************************************************************)
RECURSIVE Product(_)
Product(ks) == IF ks = <<>> THEN 1 ELSE (Head(ks) * Product(Tail(ks))) % R

Last(s) == s[Len(s)]

\* The delta in G1 that precedes contribution i of a chain.
DeltaBefore(contributions, i) ==
  IF i = 1 THEN G1Generator ELSE contributions[i - 1].delta_after

\* The state after the first k contribute calls of the run that led to
\* chain, replayed on the initial parameters of circuit c.
RECURSIVE Replay(_, _, _, _)
Replay(c, chain, deltas, k) ==
  IF k = 0 THEN InitialParams[c].v
  ELSE contribute(Replay(c, chain, deltas, k - 1), deltas[k], chain[k].s).self

\* p with public key pk appended and delta put in, as contribute does it,
\* but for the public key, which is the given one instead of a fresh one.
Reuse(p, pk, delta) ==
  [contribute(p, delta, pk.s).self EXCEPT !.contributions = Append(p.contributions, pk)]

(***************************************************************************)
(* C1.  After any sequence of contribute calls applied to new(C),          *)
(* verify(C) succeeds, whatever merge_pairs samples, and returns as many   *)
(* hashes as contribute calls completed, the i-th being the hash the i-th  *)
(* call returned.                                                          *)
(***************************************************************************)
C1_VerifyReturnsReceipts ==
  Live =>
    /\ Len(receipts) = Len(privkeys)
    /\ \A rng \in Rngs : verify(params, circuit, rng) = VOk(receipts)

C1_Witness ==
  /\ Live
  /\ Len(receipts) = 2
  /\ receipts[1] # receipts[2]
  /\ verify(params, circuit, <<1, 1>>) = VOk(receipts)

(***************************************************************************)
(* C2.  For the state before a completed contribute call and the state     *)
(* after it, verify_contribution succeeds and returns the hash that the    *)
(* call returned.                                                          *)
(***************************************************************************)
C2_VerifyContributionAdjacent ==
  (Live /\ Len(receipts) > 0) =>
    \A rng \in Rngs :
      verify_contribution(before, params, rng) = VOk(Last(receipts))

C2_Witness ==
  /\ Live
  /\ outcome = Outcome("contribute", "Ok")
  /\ Len(before.contributions) = 1
  /\ verify_contribution(before, params, <<1, 2>>) = VOk(Last(receipts))

(***************************************************************************)
(* C3.  The contribution list is append-only: new yields an empty list, a  *)
(* completed contribute appends exactly one entry at the end, and no step  *)
(* shortens the list or changes an entry it holds.                         *)
(***************************************************************************)
C3_AppendOnly ==
  [][ /\ Len(params'.contributions) >= Len(params.contributions)
      /\ SubSeq(params'.contributions, 1, Len(params.contributions))
           = params.contributions
      /\ (outcome'.op = "new" => params'.contributions = <<>>)
      /\ (outcome' = Outcome("contribute", "Ok")
            => /\ Len(params'.contributions) = Len(params.contributions) + 1
               /\ receipts' = Append(receipts, pubkey_hash(Last(params'.contributions))))
      /\ (outcome' # Outcome("contribute", "Ok")
            => params'.contributions = params.contributions) ]_vars

C3_Witness ==
  /\ Live
  /\ outcome = Outcome("contribute", "Ok")
  /\ Len(params.contributions) = 2
  /\ params.contributions[1] # params.contributions[2]

(***************************************************************************)
(* C4.  In every state derived from new(C) by contribute calls, alpha_g1,  *)
(* beta_g1, beta_g2, gamma_g2, IC, A, B_G1, B_G2 and cs_hash are those of  *)
(* new(C), and H and L have the lengths they have in new(C).               *)
(***************************************************************************)
C4_FrozenFields ==
  Live =>
    LET p0 == InitialParams[circuit].v
    IN /\ params.params.vk.alpha_g1 = p0.params.vk.alpha_g1
       /\ params.params.vk.beta_g1 = p0.params.vk.beta_g1
       /\ params.params.vk.beta_g2 = p0.params.vk.beta_g2
       /\ params.params.vk.gamma_g2 = p0.params.vk.gamma_g2
       /\ params.params.vk.ic = p0.params.vk.ic
       /\ params.params.a = p0.params.a
       /\ params.params.b_g1 = p0.params.b_g1
       /\ params.params.b_g2 = p0.params.b_g2
       /\ params.cs_hash = p0.cs_hash
       /\ Len(params.params.h) = Len(p0.params.h)
       /\ Len(params.params.l) = Len(p0.params.l)

C4_Witness ==
  /\ Live
  /\ Len(params.contributions) = 2
  /\ Len(params.params.h) = 3
  /\ params.params.h # InitialParams[circuit].v.params.h
  /\ params.params.vk.ic = InitialParams[circuit].v.params.vk.ic

(***************************************************************************)
(* C5.  delta_g1 and delta_g2 have the same logarithm: the pairing check   *)
(* e(G1, delta_g2) = e(delta_g1, G2) holds, and both are the generator     *)
(* multiplied by the product of the deltas contributed so far (1 at new).  *)
(***************************************************************************)
C5_DeltaConsistent ==
  Live =>
    /\ same_ratio(<<G1Generator, params.params.vk.delta_g1>>,
                  <<G2Generator, params.params.vk.delta_g2>>)
    /\ params.params.vk.delta_g1 = PointMul(G1Generator, Product(privkeys))
    /\ params.params.vk.delta_g2 = PointMul(G2Generator, Product(privkeys))

C5_Witness ==
  /\ Live
  /\ Len(privkeys) = 2
  /\ Product(privkeys) = 3
  /\ params.params.vk.delta_g2 = 3

(***************************************************************************)
(* C6.  Every public key of the chain satisfies the proof-of-knowledge     *)
(* relations for the delta of its contribute call: s_delta = delta * s,    *)
(* r_delta = delta * hash_to_g2(transcript), delta_after = delta * (the    *)
(* delta_g1 before the call), and so the two pairing equations.            *)
(***************************************************************************)
C6_ProofOfKnowledge ==
  Live =>
    /\ Len(params.contributions) = Len(privkeys)
    /\ \A i \in 1 .. Len(params.contributions) :
         LET pk == params.contributions[i]
             delta == privkeys[i]
             r == hash_to_g2(pk.transcript)
             delta_before == DeltaBefore(params.contributions, i)
         IN /\ pk.s_delta = PointMul(pk.s, delta)
            /\ pk.r_delta = PointMul(r, delta)
            /\ pk.delta_after = PointMul(delta_before, delta)
            /\ pairing_with(pk.s, pk.r_delta) = pairing_with(pk.s_delta, r)
            /\ pairing_with(delta_before, pk.r_delta)
                 = pairing_with(pk.delta_after, r)
    /\ Len(params.contributions) > 0 =>
         /\ DeltaBefore(params.contributions, Len(params.contributions))
              = before.params.vk.delta_g1
         /\ Last(params.contributions).delta_after = params.params.vk.delta_g1

C6_Witness ==
  /\ Live
  /\ Len(params.contributions) = 2
  /\ privkeys = <<2, 3>>
  /\ params.contributions[2].delta_after = 1
  /\ params.contributions[2].s_delta = PointMul(params.contributions[2].s, 3)

\* Every point of p is a point of the group.
AllValid(p) ==
  LET q == p.params
      Valid(ps) == \A i \in 1 .. Len(ps) : ps[i] \in Fr
  IN /\ Valid(<<q.vk.alpha_g1, q.vk.beta_g1, q.vk.beta_g2, q.vk.gamma_g2,
                 q.vk.delta_g1, q.vk.delta_g2>>)
     /\ Valid(q.vk.ic) /\ Valid(q.h) /\ Valid(q.l)
     /\ Valid(q.a) /\ Valid(q.b_g1) /\ Valid(q.b_g2)
     /\ \A i \in 1 .. Len(p.contributions) :
          Valid(<<p.contributions[i].delta_after, p.contributions[i].s,
                  p.contributions[i].s_delta, p.contributions[i].r_delta>>)

\* read in the given mode gives back p from bytes, whole, and the value read
\* is written as the same bytes.
RoundTrip(p, bytes, checked) ==
  LET r == MPCParameters_read(bytes, checked)
  IN /\ r.ok
     /\ r.rest = <<>>
     /\ r.v.params = p.params
     /\ r.v.cs_hash = p.cs_hash
     /\ r.v.contributions = p.contributions
     /\ MPCParameters_write(r.v) = bytes

TamperSDelta(p, x) ==
  [p EXCEPT !.contributions[Len(p.contributions)].s_delta = x]

\* p with delta_g2 replaced by y.
TamperDeltaG2(p, y) == [p EXCEPT !.params.vk.delta_g2 = y]

(***************************************************************************)
(* C8.  After a contribute call, replacing the s_delta of the last public  *)
(* key by any other G1 point makes verify(C) return Err and makes          *)
(* verify_contribution(before, tampered) return Err.                       *)
(***************************************************************************)
C8_TamperedSDeltaRejected ==
  (Live /\ Len(params.contributions) > 0) =>
    \A x \in Fr \ {Last(params.contributions).s_delta} :
      \A rng \in Rngs :
        /\ verify(TamperSDelta(params, x), circuit, rng).status = "Err"
        /\ verify_contribution(before, TamperSDelta(params, x), rng).status = "Err"

C8_Witness ==
  /\ Live
  /\ Len(params.contributions) = 2
  /\ Last(params.contributions).s_delta = 4
  /\ verify(TamperSDelta(params, 3), circuit, <<2, 1>>) = VErr("transcript")
  /\ verify_contribution(before, TamperSDelta(params, 3), <<2, 1>>)
       = VErr("transcript")

(***************************************************************************)
(* C9.  In a state produced by contribute calls, replacing delta_g2 by any *)
(* other G2 point makes verify(C) return Err, and the check that returns   *)
(* it is the pairing check of delta_g1 against delta_g2: every check       *)
(* before it passes.                                                       *)
(***************************************************************************)
C9_TamperedDeltaG2Rejected ==
  (Live /\ Len(params.contributions) > 0) =>
    \A y \in Fr \ {params.params.vk.delta_g2} :
      \A rng \in Rngs :
        verify(TamperDeltaG2(params, y), circuit, rng) = VErr("delta_g2")

C9_Witness ==
  /\ Live
  /\ Len(params.contributions) = 2
  /\ params.params.vk.delta_g2 = 2
  /\ verify(TamperDeltaG2(params, 3), circuit, <<1, 3>>) = VErr("delta_g2")

(***************************************************************************)
(* C10.  A public key made for one state of a chain is rejected, by verify *)
(* and by verify_contribution, at the check of its transcript, when it is  *)
(* appended to a state with another cs_hash or with other contributions    *)
(* before it, or to the chain that holds it already.                       *)
(***************************************************************************)
C10_KeypairNotReusable ==
  (Live /\ Len(params.contributions) > 0) =>
    \A c \in {d \in 1 .. Len(Circuits) : InitialParams[d].status = "Ok"} :
      \A k \in 0 .. Len(params.contributions) :
        LET target == Replay(c, params.contributions, privkeys, k)
        IN \A i \in 1 .. Len(params.contributions) :
             (c # circuit \/ k # i - 1) =>
               LET after == Reuse(target, params.contributions[i], privkeys[i])
               IN \A rng \in Rngs :
                    /\ verify(after, c, rng) = VErr("transcript")
                    /\ verify_contribution(target, after, rng) = VErr("transcript")

C10_Witness ==
  /\ Live
  /\ Len(params.contributions) = 2
  /\ privkeys[2] = 1
  /\ verify(Reuse(params, params.contributions[2], 1), circuit, <<1, 1>>)
       = VErr("transcript")
  /\ verify_contribution(params, Reuse(params, params.contributions[2], 1), <<1, 1>>)
       = VErr("transcript")

\* p with element k of H replaced by x; with element k of L replaced by x.
TamperH(p, k, x) == [p EXCEPT !.params.h[k] = x]
TamperL(p, k, x) == [p EXCEPT !.params.l[k] = x]

(***************************************************************************)
(* C11, as the specification states it.  After a contribute call, with any *)
(* single element of H or of L replaced by another G1 point,               *)
(* verify_contribution(before, after) returns Err whatever coefficients    *)
(* merge_pairs samples.                                                    *)
(***************************************************************************)
C11_TamperedQueryAlwaysRejected ==
  (Live /\ Len(params.contributions) > 0) =>
    \A rng \in Rngs :
      /\ \A k \in 1 .. Len(params.params.h) :
           \A x \in Fr \ {params.params.h[k]} :
             verify_contribution(before, TamperH(params, k, x), rng).status = "Err"
      /\ \A k \in 1 .. Len(params.params.l) :
           \A x \in Fr \ {params.params.l[k]} :
             verify_contribution(before, TamperL(params, k, x), rng).status = "Err"

(***************************************************************************)
(* C11, amended.  After a contribute call every element of H and of L is   *)
(* the element of before multiplied by the inverse of the contributed      *)
(* delta, and before.delta_g1 is delta_g1 multiplied by that inverse.      *)
(* With a single element of H or of L replaced by another G1 point,        *)
(* verify_contribution(before, after) returns Err, at the check of that    *)
(* query, when the coefficient merge_pairs samples for that element is not *)
(* zero, and returns Ok when that coefficient is zero.                     *)
(***************************************************************************)
C11_TamperedQueryRejectedUnlessRhoZero ==
  (Live /\ Len(params.contributions) > 0) =>
    LET delta_inv == invert(Last(privkeys)).v
        nh == Len(params.params.h)
    IN /\ params.params.h = batch_exp(before.params.h, delta_inv)
       /\ params.params.l = batch_exp(before.params.l, delta_inv)
       /\ before.params.vk.delta_g1 = PointMul(params.params.vk.delta_g1, delta_inv)
       /\ \A rng \in Rngs :
            /\ \A k \in 1 .. nh :
                 \A x \in Fr \ {params.params.h[k]} :
                   verify_contribution(before, TamperH(params, k, x), rng)
                     = IF Rho(rng, k) # 0 THEN VErr("H query")
                       ELSE VOk(Last(receipts))
            /\ \A k \in 1 .. Len(params.params.l) :
                 \A x \in Fr \ {params.params.l[k]} :
                   verify_contribution(before, TamperL(params, k, x), rng)
                     = IF Rho(rng, nh + k) # 0 THEN VErr("L query")
                       ELSE VOk(Last(receipts))

\* After two contributions to CubeRoot, an element of H and an element of L
\* are replaced, and both outcomes occur.
C11_Witness ==
  /\ Live
  /\ Len(params.contributions) = 2
  /\ Len(params.params.h) = 3
  /\ Len(params.params.l) = 2
  /\ params.params.h[2] # 0
  /\ verify_contribution(before, TamperH(params, 2, 0), <<1, 1>>) = VErr("H query")
  /\ verify_contribution(before, TamperH(params, 2, 0), <<1, 3>>) = VOk(Last(receipts))
  /\ verify_contribution(before, TamperL(params, 1, 0), <<1, 0>>) = VErr("L query")
  /\ verify_contribution(before, TamperL(params, 1, 0), <<1, 1>>) = VOk(Last(receipts))

\* p with the public key at position i replaced by pk.
TamperPubkey(p, i, pk) == [p EXCEPT !.contributions[i] = pk]

\* The states of the run that led to params, from new(C) on, and params with
\* one of its public keys but the last replaced by the last one or given
\* another transcript.
C12_States ==
  LET n == Len(params.contributions)
  IN {Replay(circuit, params.contributions, privkeys, k) : k \in 0 .. n}
       \cup {TamperPubkey(params, i, Last(params.contributions)) : i \in 1 .. (n - 1)}
       \cup {TamperPubkey(params, i,
                [params.contributions[i] EXCEPT !.transcript = params.cs_hash]) :
               i \in 1 .. (n - 1)}

(***************************************************************************)
(* C12.  verify_contribution(before, after) returns Err, at its first two  *)
(* checks, unless after.contributions has exactly one entry more than      *)
(* before.contributions and begins with the entries of                     *)
(* before.contributions: a step of no entry, of two entries or more, or    *)
(* one that changes an earlier entry is rejected, and a step of one        *)
(* contribute call is accepted.                                            *)
(***************************************************************************)
C12_ExactlyOneAppended ==
  Live =>
    \A b \in C12_States, a \in C12_States, rng \in Rngs :
      LET nb == Len(b.contributions)
          na == Len(a.contributions)
          res == verify_contribution(b, a, rng)
      IN /\ na # nb + 1 => res = VErr("single new object")
         /\ (na = nb + 1 /\ SubSeq(a.contributions, 1, nb) # b.contributions)
              => res = VErr("previous transformations")
         /\ (na = nb + 1 /\ a = Replay(circuit, params.contributions, privkeys, na)
               /\ b = Replay(circuit, params.contributions, privkeys, nb))
              => res.status = "Ok"

C12_Witness ==
  /\ Live
  /\ Len(params.contributions) = 2
  /\ params.contributions[1] # params.contributions[2]
  /\ verify_contribution(params, params, <<1, 1>>) = VErr("single new object")
  /\ verify_contribution(InitialParams[circuit].v, params, <<1, 1>>)
       = VErr("single new object")
  /\ verify_contribution(before, TamperPubkey(params, 1, params.contributions[2]),
                         <<1, 1>>) = VErr("previous transformations")

\* p with one of the fields that contribute leaves alone changed: a point
\* replaced by another one, a query with a point more or with its first
\* point replaced, H or L a point shorter or longer, another cs_hash.
Other(x) == 1 + (x % (R - 1))
OtherHead(ps) == IF ps = <<>> THEN <<G1Generator>> ELSE <<Other(Head(ps))>> \o Tail(ps)
FrozenTampers(p) ==
  { [p EXCEPT !.params.a = Append(@, G1Generator)],
    [p EXCEPT !.params.a = OtherHead(@)],
    [p EXCEPT !.params.b_g1 = Append(@, G1Generator)],
    [p EXCEPT !.params.b_g1 = OtherHead(@)],
    [p EXCEPT !.params.b_g2 = Append(@, G2Generator)],
    [p EXCEPT !.params.b_g2 = OtherHead(@)],
    [p EXCEPT !.params.vk.alpha_g1 = Other(@)],
    [p EXCEPT !.params.vk.beta_g1 = Other(@)],
    [p EXCEPT !.params.vk.beta_g2 = Other(@)],
    [p EXCEPT !.params.vk.gamma_g2 = Other(@)],
    [p EXCEPT !.params.vk.ic = Append(@, G1Generator)],
    [p EXCEPT !.params.vk.ic = OtherHead(@)],
    [p EXCEPT !.cs_hash = Append(@, 0)],
    [p EXCEPT !.cs_hash = <<>>],
    [p EXCEPT !.params.h = Append(@, G1Generator)],
    [p EXCEPT !.params.h = SubSeq(@, 1, Len(@) - 1)],
    [p EXCEPT !.params.l = Append(@, G1Generator)],
    [p EXCEPT !.params.l = SubSeq(@, 1, Len(@) - 1)] } \ {p}

(***************************************************************************)
(* C13.  When A, B_G1, B_G2, alpha_g1, beta_g1, beta_g2, gamma_g2, IC or   *)
(* cs_hash of the state differs from that of the state before the last     *)
(* contribute call, or H or L differs in length, verify_contribution       *)
(* returns Err at the comparison of that field; verify(C) returns Err at   *)
(* the same comparison, against the parameters new(C) returns.             *)
(***************************************************************************)
C13_FrozenFieldChangeRejected ==
  Live =>
    \A t \in FrozenTampers(params), rng \in Rngs :
      /\ check_frozen(InitialParams[circuit].v, t) # ""
      /\ verify(t, circuit, rng) = VErr(check_frozen(InitialParams[circuit].v, t))
      /\ Len(params.contributions) > 0 =>
           /\ check_frozen(before, t) = check_frozen(InitialParams[circuit].v, t)
           /\ verify_contribution(before, t, rng) = VErr(check_frozen(before, t))

C13_Witness ==
  /\ Live
  /\ Len(params.contributions) = 2
  /\ params.params.vk.ic = <<1, 4>>
  /\ verify([params EXCEPT !.params.vk.ic = <<2, 4>>], circuit, <<1, 1>>)
       = VErr("ic")
  /\ verify_contribution(before, [params EXCEPT !.params.vk.ic = <<2, 4>>], <<1, 1>>)
       = VErr("ic")
  /\ verify([params EXCEPT !.cs_hash = <<>>], circuit, <<1, 1>>) = VErr("cs_hash")
  /\ verify_contribution(before, [params EXCEPT !.params.h = Append(@, 1)], <<1, 1>>)
       = VErr("h length")

(***************************************************************************)
(* C14.  Every failure of verify and of verify_contribution is the value   *)
(* Err(()): whatever circuit verify is given, also one for which new       *)
(* fails (synthesis error, domain too large, unconstrained variable,       *)
(* missing or unreadable Phase-1 transcript), and whatever state           *)
(* verify_contribution is given, the call returns Ok or Err and ends in no *)
(* other way.                                                              *)
(***************************************************************************)
C14_FailuresCollapseToErr ==
  Live =>
    \A rng \in Rngs :
      /\ \A c \in 1 .. Len(Circuits) :
           LET v == verify(params, c, rng)
           IN /\ v.status \in {"Ok", "Err"}
              /\ InitialParams[c].status # "Ok" => v = VErr("new")
      /\ \A a \in {params} \cup FrozenTampers(params) :
           verify_contribution(before, a, rng).status \in {"Ok", "Err"}

\* What a circuit's calls say of it: the number of its auxiliary variables,
\* of its inputs (with the input "one"), of its constraints (with one per
\* input), the auxiliary variables its constraints mention, whether its
\* synthesize returns Ok.
CallsOf(circ, op) == {i \in 1 .. Len(circ) : circ[i].op = op}
NumAux(circ) == Cardinality(CallsOf(circ, "alloc"))
NumInputs(circ) == Cardinality(CallsOf(circ, "alloc_input")) + 1
NumConstraints(circ) == Cardinality(CallsOf(circ, "enforce")) + NumInputs(circ)
TermsOf(call) == call.a \o call.b \o call.c
AuxMentioned(circ) ==
  UNION {{TermsOf(circ[i])[j].var.id :
            j \in {k \in 1 .. Len(TermsOf(circ[i])) :
                     TermsOf(circ[i])[k].var.kind = "Aux"}} :
         i \in 1 .. Len(circ)}
HasUnusedAux(circ) == \E id \in 0 .. (NumAux(circ) - 1) : id \notin AuxMentioned(circ)
SynthesizeOk(circ) == CallsOf(circ, "fail") = {}

\* new gets as far as the evaluation of the QAP: synthesize returns Ok and
\* the transcript of the circuit's domain is in the working directory.
ReachesEvaluation(circ) ==
  SynthesizeOk(circ) /\ NumConstraints(circ) <= Pow2(Phase1MaxExp)

(***************************************************************************)
(* C15.  When an auxiliary variable of the circuit is in no constraint,    *)
(* new returns no MPCParameters; when new gets as far as the evaluation of *)
(* the QAP, where the L entry of that variable is the identity, it returns *)
(* Err(UnconstrainedVariable).  Nothing can be done after it: no           *)
(* MPCParameters exists.                                                   *)
(***************************************************************************)
C15_UnconstrainedRejected ==
  (circuit # 0 /\ HasUnusedAux(Circuits[circuit])) =>
    /\ InitialParams[circuit].status # "Ok"
    /\ params = NoMPCParameters
    /\ outcome.op = "new"
    /\ ReachesEvaluation(Circuits[circuit]) =>
         /\ InitialParams[circuit] = NewErr("UnconstrainedVariable")
         /\ outcome = Outcome("new", "UnconstrainedVariable")

C15_Witness ==
  /\ circuit # 0
  /\ Circuits[circuit] = UnconstrainedCircuit
  /\ HasUnusedAux(Circuits[circuit])
  /\ AuxMentioned(Circuits[circuit]) = {0}
  /\ outcome = Outcome("new", "UnconstrainedVariable")

\* The smallest k with 2^k >= n.
CeilLog2(n) ==
  CHOOSE k \in 0 .. (MaxExp + 2) :
    Pow2(k) >= n /\ \A j \in 0 .. (k - 1) : Pow2(j) < n

(***************************************************************************)
(* C16.  For n >= 1 constraints, with k the smallest integer such that     *)
(* 2^k >= n: when k <= 21 the domain step of new succeeds with m = 2^k and *)
(* exp = k, and new goes on to open the transcript; when k > 21 new        *)
(* returns Err(PolynomialDegreeTooLarge) and opens no transcript.          *)
(***************************************************************************)
C16_DomainSize ==
  domain.status # "none" =>
    LET k == CeilLog2(domain.n)
    IN /\ domain.n >= 1
       /\ k <= MaxExp =>
            /\ domain.status = "Ok"
            /\ domain.m = Pow2(k)
            /\ domain.exp = k
            /\ domain.opened
       /\ k > MaxExp =>
            /\ domain.status = "PolynomialDegreeTooLarge"
            /\ ~domain.opened
       /\ domain.status \in {"Ok", "PolynomialDegreeTooLarge"}

C16_Witness ==
  /\ domain.n = Pow2(MaxExp) + 1
  /\ CeilLog2(domain.n) = MaxExp + 1
  /\ domain.status = "PolynomialDegreeTooLarge"
  /\ outcome = Outcome("new", "PolynomialDegreeTooLarge")

(***************************************************************************)
(* C17.  The MPCParameters new returns has no contribution, gamma_g2 and   *)
(* delta_g2 the generator of G2, delta_g1 the generator of G1, H of length *)
(* m - 1 for the domain size m, L with one entry per auxiliary variable of *)
(* the circuit and IC with one entry per input, the input "one" included.  *)
(***************************************************************************)
C17_InitialParameters ==
  outcome = Outcome("new", "Ok") =>
    LET circ == Circuits[circuit]
        m == Pow2(CeilLog2(NumConstraints(circ)))
    IN /\ params = InitialParams[circuit].v
       /\ params.contributions = <<>>
       /\ params.params.vk.gamma_g2 = G2Generator
       /\ params.params.vk.delta_g2 = G2Generator
       /\ params.params.vk.delta_g1 = G1Generator
       /\ domain.n = NumConstraints(circ)
       /\ domain.m = m
       /\ Len(params.params.h) = m - 1
       /\ Len(params.params.l) = NumAux(circ)
       /\ Len(params.params.vk.ic) = NumInputs(circ)

C17_Witness ==
  /\ outcome = Outcome("new", "Ok")
  /\ Circuits[circuit] = CubeRoot
  /\ domain.m = 4
  /\ Len(params.params.h) = 3
  /\ Len(params.params.l) = 2
  /\ Len(params.params.vk.ic) = 2
  /\ params.contributions = <<>>

\* Hashes to look for: the receipts of the run, the receipts other
\* contribute calls on params would return, cs_hash and the empty string.
C18_Hashes ==
  {receipts[i] : i \in 1 .. Len(receipts)}
    \cup {contribute(params, delta, s).ret : delta \in {1, 2}, s \in RandomG1}
    \cup {params.cs_hash, <<>>}

(***************************************************************************)
(* C18.  contains_contribution(list, h) is true exactly when h is an       *)
(* element of list; and in every state produced by contribute calls the    *)
(* list verify(C) returns contains the receipt of every participant.       *)
(***************************************************************************)
C18_ContainsContribution ==
  Live =>
    \A rng \in Rngs :
      LET res == verify(params, circuit, rng)
      IN /\ res.status = "Ok"
         /\ \A i \in 1 .. Len(receipts) : contains_contribution(res.v, receipts[i])
         /\ \A h \in C18_Hashes :
              contains_contribution(res.v, h) <=> \E j \in 1 .. Len(res.v) : res.v[j] = h

C18_Witness ==
  /\ Live
  /\ Len(receipts) = 2
  /\ receipts[1] # receipts[2]
  /\ contains_contribution(verify(params, circuit, <<1, 1>>).v, receipts[1])
  /\ contains_contribution(verify(params, circuit, <<1, 1>>).v, receipts[2])
  /\ ~contains_contribution(verify(params, circuit, <<1, 1>>).v,
                            contribute(params, 2, G1Generator).ret)

\* pk with one of its four points replaced by the identity.
WithIdentity(pk) ==
  { [pk EXCEPT !.delta_after = Identity], [pk EXCEPT !.s = Identity],
    [pk EXCEPT !.s_delta = Identity], [pk EXCEPT !.r_delta = Identity] }

(***************************************************************************)
(* C19.  None of delta_after, s, s_delta, r_delta of a public key that     *)
(* contribute appended is the identity, and the public key is read back    *)
(* from its bytes; with any of the four points replaced by the identity,   *)
(* PublicKey::read returns an error on its bytes, and MPCParameters::read, *)
(* in either mode, returns an error on the bytes of the parameters that    *)
(* hold it.                                                                *)
(***************************************************************************)
C19_NoIdentityInPublicKey ==
  Live =>
    \A i \in 1 .. Len(params.contributions) :
      LET pk == params.contributions[i]
      IN /\ ~is_identity(pk.delta_after)
         /\ ~is_identity(pk.s)
         /\ ~is_identity(pk.s_delta)
         /\ ~is_identity(pk.r_delta)
         /\ PublicKey_read(PublicKey_write(pk)) = ReadOk(pk, <<>>)
         /\ \A bad \in WithIdentity(pk) :
              /\ PublicKey_read(PublicKey_write(bad)) = ReadErr
              /\ \A checked \in BOOLEAN :
                   ~MPCParameters_read(MPCParameters_write(TamperPubkey(params, i, bad)),
                                       checked).ok

C19_Witness ==
  /\ Live
  /\ Len(params.contributions) = 2
  /\ privkeys = <<4, 4>>
  /\ ~is_identity(params.contributions[2].delta_after)
  /\ PublicKey_read(PublicKey_write([params.contributions[2] EXCEPT !.r_delta = Identity]))
       = ReadErr
  /\ MPCParameters_read(MPCParameters_write(params), TRUE).ok
  /\ ~MPCParameters_read(MPCParameters_write(
          TamperPubkey(params, 1, [params.contributions[1] EXCEPT !.s = Identity])),
        FALSE).ok

\* The binding hashes verify computes for the public keys of p, each from a
\* clone of its running hasher; the binding hash of public key i of p
\* computed from scratch.
ForkedHashes(p) ==
  verify_loop(p.contributions, 1,
              HashWriter_write(HashWriter_new, WriteDigest(p.cs_hash)),
              G1Generator, <<>>).hashes
ScratchHash(p, i) ==
  transcript_hash(p.cs_hash, SubSeq(p.contributions, 1, i - 1),
                  p.contributions[i].s, p.contributions[i].s_delta)

(***************************************************************************)
(* C20.  For every position i of the chain, the hash verify computes for   *)
(* public key i from a clone of its running hasher, with s and s_delta     *)
(* written to the clone, is the hash of cs_hash, the public keys before i, *)
(* s and s_delta computed from scratch, which is the transcript keypair    *)
(* put in the key; the writes to the clone at position i leave the running *)
(* hasher as it was, so that the same holds at position i + 1.  It holds   *)
(* also of a chain whose last public key has another s_delta.              *)
(***************************************************************************)
C20_ForkedHashIsScratchHash ==
  Live =>
    LET n == Len(params.contributions)
    IN /\ Len(ForkedHashes(params)) = n
       /\ \A i \in 1 .. n :
            /\ ForkedHashes(params)[i] = ScratchHash(params, i)
            /\ ForkedHashes(params)[i] = params.contributions[i].transcript
       /\ n > 0 =>
            \A x \in Fr \ {Last(params.contributions).s_delta} :
              /\ Len(ForkedHashes(TamperSDelta(params, x))) = n
              /\ \A i \in 1 .. n :
                   ForkedHashes(TamperSDelta(params, x))[i]
                     = ScratchHash(TamperSDelta(params, x), i)

C20_Witness ==
  /\ Live
  /\ Len(params.contributions) = 2
  /\ Len(ForkedHashes(params)) = 2
  /\ ForkedHashes(params)[1] # ForkedHashes(params)[2]
  /\ ForkedHashes(params)[2] = ScratchHash(params, 2)
  /\ ForkedHashes(params)[2] = params.contributions[2].transcript

\* p with delta_g1 replaced by x.
TamperDeltaG1(p, x) == [p EXCEPT !.params.vk.delta_g1 = x]

\* p as it is, and p with one of its parts changed: the s_delta of its last
\* public key, delta_g1, delta_g2, an element of H or of L, a frozen field.
Variants(p) ==
  {p}
    \cup (IF p.contributions = <<>> THEN {} ELSE {TamperSDelta(p, x) : x \in Fr})
    \cup {TamperDeltaG1(p, x) : x \in Fr}
    \cup {TamperDeltaG2(p, y) : y \in Fr}
    \cup {TamperH(p, k, Other(p.params.h[k])) : k \in 1 .. Len(p.params.h)}
    \cup {TamperL(p, k, Other(p.params.l[k])) : k \in 1 .. Len(p.params.l)}
    \cup FrozenTampers(p)

(***************************************************************************)
(* C21, as the specification states it.  For before = new(C) and any state *)
(* after, verify_contribution(before, after) succeeds if and only if       *)
(* after.verify(C) succeeds.                                               *)
(***************************************************************************)
C21_SameVerdictAnyState ==
  Live =>
    \A rng \in Rngs :
      verify_contribution(InitialParams[circuit].v, params, rng).status = "Ok"
        <=> verify(params, circuit, rng).status = "Ok"

(***************************************************************************)
(* C21, amended.  For before = new(C) and a state after that holds exactly *)
(* one contribution, as contribute left it or with a part changed, the two *)
(* verifiers apply the same checks: with the same coefficients sampled by  *)
(* merge_pairs, both return Err at the same check, or both return Ok and   *)
(* verify returns the one hash verify_contribution returns.  For a state   *)
(* with no contribution or with two or more, verify_contribution returns   *)
(* Err at its first check while verify succeeds.                           *)
(***************************************************************************)
C21_SameChecksOnOneContribution ==
  Live =>
    LET new == InitialParams[circuit].v
    IN /\ Len(params.contributions) = 1 =>
            \A a \in Variants(params), rng \in Rngs :
              LET v == verify(a, circuit, rng)
              IN verify_contribution(new, a, rng)
                   = IF v.status = "Ok" /\ Len(v.v) = 1 THEN VOk(v.v[1])
                     ELSE VErr(v.at)
       /\ Len(params.contributions) # 1 =>
            \A rng \in Rngs :
              /\ verify_contribution(new, params, rng) = VErr("single new object")
              /\ verify(params, circuit, rng).status = "Ok"

C21_Witness ==
  /\ Live
  /\ Len(params.contributions) = 1
  /\ Len(params.params.h) = 3
  /\ verify(params, circuit, <<1, 1>>) = VOk(receipts)
  /\ verify_contribution(InitialParams[circuit].v, params, <<1, 1>>) = VOk(receipts[1])
  /\ verify(TamperDeltaG1(params, 0), circuit, <<1, 1>>) = VErr("delta_g1")
  /\ verify_contribution(InitialParams[circuit].v, TamperDeltaG1(params, 0), <<1, 1>>)
       = VErr("delta_g1")

\* The pairs (before, after) given to verify_contribution: the state before
\* the last contribute call and the state after it, one of them with a part
\* changed.
C22_Pairs ==
  {<<before, a>> : a \in Variants(params)}
    \cup {<<b, params>> : b \in Variants(before)}

(***************************************************************************)
(* C22, as the specification states it.  If before.verify(C) succeeds and  *)
(* verify_contribution(before, after) succeeds, then after.verify(C)       *)
(* succeeds, each call with the coefficients its merge_pairs samples, and  *)
(* returns the vector returned for before followed by the hash             *)
(* verify_contribution returns.                                            *)
(***************************************************************************)
C22_ComposesAnySamples ==
  (Live /\ Len(params.contributions) > 0) =>
    \A pair \in C22_Pairs, rng1 \in Rngs, rng2 \in Rngs, rng3 \in Rngs :
      LET vb == verify(pair[1], circuit, rng1)
          vc == verify_contribution(pair[1], pair[2], rng2)
      IN (vb.status = "Ok" /\ vc.status = "Ok")
           => verify(pair[2], circuit, rng3) = VOk(Append(vb.v, vc.v))

(***************************************************************************)
(* C22, amended.  If before.verify(C) succeeds and                         *)
(* verify_contribution(before, after) succeeds, then every check of        *)
(* after.verify(C) succeeds for the coefficients the other two calls       *)
(* sampled, and it returns the vector returned for before followed by the  *)
(* hash verify_contribution returns; for another sample it returns that or *)
(* Err at the check of H or of L; when after is the state contribute made  *)
(* of before it succeeds for every sample.                                 *)
(***************************************************************************)
C22_ComposesSameSamples ==
  (Live /\ Len(params.contributions) > 0) =>
    /\ \A pair \in C22_Pairs, rng \in Rngs :
         LET vb == verify(pair[1], circuit, rng)
             vc == verify_contribution(pair[1], pair[2], rng)
         IN (vc.status = "Ok" /\ vb.status = "Ok")
              => /\ verify(pair[2], circuit, rng) = VOk(Append(vb.v, vc.v))
                 /\ \A rng3 \in Rngs :
                      verify(pair[2], circuit, rng3)
                        \in {VOk(Append(vb.v, vc.v)), VErr("H query"), VErr("L query")}
    /\ \A rng1 \in Rngs :
         LET vb == verify(before, circuit, rng1)
             vc == verify_contribution(before, params, rng1)
         IN /\ vb.status = "Ok"
            /\ vc.status = "Ok"
            /\ \A rng3 \in Rngs :
                 verify(params, circuit, rng3) = VOk(Append(vb.v, vc.v))

\* Two contributions to CubeRoot: the honest step composes, and so does the
\* step with an element of H replaced whose coefficient is zero.
C22_Witness ==
  /\ Live
  /\ Len(params.contributions) = 2
  /\ Len(params.params.h) = 3
  /\ verify(before, circuit, <<1, 1>>) = VOk(<<receipts[1]>>)
  /\ verify_contribution(before, params, <<1, 1>>) = VOk(receipts[2])
  /\ verify(params, circuit, <<1, 1>>) = VOk(receipts)
  /\ verify_contribution(before, TamperH(params, 1, Other(params.params.h[1])), <<1, 4>>)
       = VOk(receipts[2])
  /\ verify(TamperH(params, 1, Other(params.params.h[1])), circuit, <<1, 4>>)
       = VOk(receipts)
  /\ verify(TamperH(params, 1, Other(params.params.h[1])), circuit, <<1, 1>>)
       = VErr("H query")

\* s without its element i; s with its elements i and j exchanged.
RemoveAt(s, i) == SubSeq(s, 1, i - 1) \o SubSeq(s, i + 1, Len(s))
SwapAt(s, i, j) == [s EXCEPT ![i] = s[j], ![j] = s[i]]

\* p without contribution record i; p with records i and j exchanged.
RemoveRecord(p, i) == [p EXCEPT !.contributions = RemoveAt(@, i)]
SwapRecords(p, i, j) == [p EXCEPT !.contributions = SwapAt(@, i, j)]

(***************************************************************************)
(* C23, as the specification states it.  After two contribute calls or     *)
(* more, verify(C) returns Err on the state with one contribution record   *)
(* removed and on the state with two records exchanged, the parameters     *)
(* being left as they are.                                                 *)
(***************************************************************************)
C23_RecordRemovedOrSwappedRejected ==
  (Live /\ Len(params.contributions) >= 2) =>
    \A rng \in Rngs, i \in 1 .. Len(params.contributions) :
      /\ verify(RemoveRecord(params, i), circuit, rng).status = "Err"
      /\ \A j \in (i + 1) .. Len(params.contributions) :
           verify(SwapRecords(params, i, j), circuit, rng).status = "Err"

(***************************************************************************)
(* C23, amended.  After two contribute calls or more, verify(C) returns    *)
(* Err at the transcript check on the state with a record other than the   *)
(* last removed and on the state with two records exchanged; with the last *)
(* record removed it returns Err at the comparison of delta_g1, unless the *)
(* delta of the last contribute call is 1: that call changed nothing but   *)
(* the list, and verify returns Ok with the hashes of the other records.   *)
(***************************************************************************)
C23_RecordRemovedOrSwapped ==
  (Live /\ Len(params.contributions) >= 2) =>
    LET n == Len(params.contributions)
    IN \A rng \in Rngs :
         /\ \A i \in 1 .. (n - 1) :
              /\ verify(RemoveRecord(params, i), circuit, rng) = VErr("transcript")
              /\ \A j \in (i + 1) .. n :
                   verify(SwapRecords(params, i, j), circuit, rng) = VErr("transcript")
         /\ verify(RemoveRecord(params, n), circuit, rng)
              = IF privkeys[n] = 1 THEN VOk(SubSeq(receipts, 1, n - 1))
                ELSE VErr("delta_g1")
         /\ privkeys[n] = 1 => RemoveRecord(params, n) = before

C23_Witness ==
  /\ Live
  /\ Len(params.contributions) = 2
  /\ privkeys = <<2, 1>>
  /\ RemoveRecord(params, 2) = before
  /\ verify(RemoveRecord(params, 2), circuit, <<1, 1>>) = VOk(<<receipts[1]>>)
  /\ verify(RemoveRecord(params, 1), circuit, <<1, 1>>) = VErr("transcript")
  /\ verify(SwapRecords(params, 1, 2), circuit, <<1, 1>>) = VErr("transcript")

(***************************************************************************)
(* C24.  A contribute call whose sampled delta is zero does not complete:  *)
(* it panics at the expect on the inverse of delta, and the parameters     *)
(* (H, L, delta_g1, delta_g2), cs_hash and the contribution list are what  *)
(* they were: no public key is appended and no hash is returned.           *)
(***************************************************************************)
C24_ZeroDeltaWritesNothing ==
  /\ [](Live => \A s \in RandomG1 :
                  contribute(params, 0, s)
                    = [status |-> "Panic", self |-> params, ret |-> <<>>])
  /\ [][\A s \in RandomG1 :
          Contribute(0, s) =>
            /\ outcome' = Outcome("contribute", "Panic")
            /\ params' = params
            /\ receipts' = receipts]_vars

C24_Witness ==
  /\ outcome = Outcome("contribute", "Panic")
  /\ Len(params.contributions) = 1
  /\ Len(receipts) = 1
  /\ params.params.vk.delta_g1 = 2

\* The sum of local[w] over the workers w <= k whose position is in stages.
RECURSIVE SumOfWorkers(_, _, _, _)
SumOfWorkers(local, pc, stages, k) ==
  IF k = 0 THEN Identity
  ELSE PointAdd(IF pc[k] \in stages THEN local[k] ELSE Identity,
                SumOfWorkers(local, pc, stages, k - 1))

\* The sum of rho[j] * v[j] over the indices j <= k.
RECURSIVE Combination(_, _, _)
Combination(rho, v, k) ==
  IF k = 0 THEN Identity
  ELSE PointAdd(PointMul(v[k], rho[k]), Combination(rho, v, k - 1))

\* The positions of a worker after its add to s, and after its add to sx.
AfterStore_s == {"lock_sx", "load_sx", "store_sx", "done"}
AfterStore_sx == {"done"}

(***************************************************************************)
(* C25, as the specification states it: a worker adds its two partial sums *)
(* under a single mutex guarding both accumulators.  Then, whenever no     *)
(* worker holds a mutex, s and sx hold the sums of the same workers: those *)
(* that have finished.                                                     *)
(***************************************************************************)
C25_OneMutexGuardsBoth ==
  (merge.main = "scope" /\ merge.lock_s = 0 /\ merge.lock_sx = 0) =>
    LET W == Len(merge.pc)
    IN /\ merge.s = SumOfWorkers(merge.local_s, merge.pc, {"done"}, W)
       /\ merge.sx = SumOfWorkers(merge.local_sx, merge.pc, {"done"}, W)

(***************************************************************************)
(* C25, amended.  In merge_pairs each worker adds its partial sum local_s  *)
(* to s under the mutex of s and then its partial sum local_sx to sx under *)
(* the mutex of sx.  Under every interleaving no update is lost: at most   *)
(* one worker is inside an add to s and it holds the mutex of s, the same  *)
(* for sx, s is the sum of local_s over the workers that have added to s   *)
(* and sx the sum of local_sx over those that have added to sx; every      *)
(* index is in the chunk of exactly one worker; the returned pair is       *)
(* (sum rho_j * v1_j, sum rho_j * v2_j) with one rho_j per index, which is *)
(* the pair of the sequential computation for the same scalars.            *)
(***************************************************************************)
C25_NoUpdateLost ==
  merge.main \in {"scope", "returned"} =>
    LET W == Len(merge.pc)
        n == Len(merge.v1)
        in_s == {w \in 1 .. W : merge.pc[w] \in {"load_s", "store_s"}}
        in_sx == {w \in 1 .. W : merge.pc[w] \in {"load_sx", "store_sx"}}
    IN /\ \A j \in 1 .. n :
            Cardinality({w \in 1 .. W :
                           merge.span[w][1] <= j /\ j <= merge.span[w][2]}) = 1
       /\ in_s = IF merge.lock_s = 0 THEN {} ELSE {merge.lock_s}
       /\ in_sx = IF merge.lock_sx = 0 THEN {} ELSE {merge.lock_sx}
       /\ merge.lock_s = 0 =>
            merge.s = SumOfWorkers(merge.local_s, merge.pc, AfterStore_s, W)
       /\ merge.lock_sx = 0 =>
            merge.sx = SumOfWorkers(merge.local_sx, merge.pc, AfterStore_sx, W)
       /\ merge.main = "returned" =>
            /\ \A j \in 1 .. n : merge.rho[j] \in Fr
            /\ merge.ret = <<Combination(merge.rho, merge.v1, n),
                             Combination(merge.rho, merge.v2, n)>>
            /\ \A rng \in Rngs :
                 (\A j \in 1 .. n : merge.rho[j] = Rho(rng, j))
                   => merge.ret = merge_pairs(merge.v1, merge.v2, rng, 0).pair

\* Three workers, the second between its two adds while no mutex is held,
\* and the call returned with the pair of the three products.
C25_Witness ==
  /\ merge.main = "returned"
  /\ merge.cpus = 4
  /\ Len(merge.pc) = 3
  /\ merge.v1 = <<1, 2, 2>>
  /\ merge.rho = <<1, 2, 3>>
  /\ merge.ret = <<1, 3>>

C25_BetweenTheTwoAdds ==
  /\ merge.main = "scope"
  /\ Len(merge.pc) = 3
  /\ merge.pc[2] = "lock_sx"
  /\ merge.lock_s = 0 /\ merge.lock_sx = 0
  /\ merge.s # Identity /\ merge.sx = Identity

(***************************************************************************)
(* C26.  batch_exp, for every length of the array (0, less than the number *)
(* of CPUs, not a multiple of it) and every interleaving of its workers,   *)
(* replaces element i of the array by coeff times the old element i: the   *)
(* chunks partition the array, no normalization worker runs before every   *)
(* multiplication worker has written its products, and the length of the   *)
(* array is unchanged.  The array it returns is the one contribute's       *)
(* sequential batch_exp computes.                                          *)
(***************************************************************************)
C26_BatchExpScalesEveryElement ==
  batch.main \in {"multiply", "normalize", "returned"} =>
    LET n == Len(batch.arg)
        W == Len(batch.span)
    IN /\ \A i \in 1 .. n :
            Cardinality({w \in 1 .. W :
                           batch.span[w][1] <= i /\ i <= batch.span[w][2]}) = 1
       /\ \A w \in 1 .. W :
            1 <= batch.span[w][1] /\ batch.span[w][1] <= batch.span[w][2]
              /\ batch.span[w][2] <= n
       /\ Len(batch.bases) = n
       /\ Len(batch.projective) = n
       /\ batch.main = "multiply" =>
            \A i \in 1 .. n : ~batch.projective[i].normal
       /\ batch.main = "normalize" =>
            \A i \in 1 .. n :
              batch.projective[i].p = PointMul(batch.arg[i], batch.coeff)
       /\ batch.main = "returned" =>
            /\ \A i \in 1 .. n :
                 /\ batch.bases[i] = PointMul(batch.arg[i], batch.coeff)
                 /\ batch.projective[i].normal
            /\ batch.bases = batch_exp(batch.arg, batch.coeff)

\* Five bases on two CPUs: chunks of two, two and one element.
C26_Witness ==
  /\ batch.main = "returned"
  /\ batch.cpus = 2
  /\ batch.coeff = 3
  /\ batch.arg = <<1, 2, 1, 2, 1>>
  /\ batch.span = <<<<1, 2>>, <<3, 4>>, <<5, 5>>>>
  /\ batch.bases = <<3, 1, 3, 1, 3>>

\* The constraints new evaluates for a circuit: those its synthesize
\* enforces, in order, and then x_i * 0 = 0 for every input i.
IsEnforce(call) == call.op = "enforce"
ConstraintsOf(circ) ==
  SelectSeq(circ, IsEnforce)
    \o [i \in 1 .. NumInputs(circ) |-> CallEnforce(<<Term(Input(i - 1), 1)>>, <<>>, <<>>)]

\* The coefficient of variable v in the linear combination lc.
RECURSIVE CoefficientIn(_, _)
CoefficientIn(lc, v) ==
  IF lc = <<>> THEN 0
  ELSE ((IF Head(lc).var = v THEN Head(lc).coeff ELSE 0) + CoefficientIn(Tail(lc), v)) % R

\* The QAP polynomial of variable v at tau (as the discrete logarithm of
\* the point): the sum over the constraints k of v's coefficient in the
\* part ("a", "b" or "c") of constraint k times the k-th Lagrange coefficient.
RECURSIVE QapSum(_, _, _, _)
QapSum(cons, part, v, k) ==
  IF k = 0 THEN 0
  ELSE (CoefficientIn(cons[k][part], v) * Phase1Lagrange(k - 1)
          + QapSum(cons, part, v, k - 1)) % R
Qap(circ, part, v) == QapSum(ConstraintsOf(circ), part, v, Len(ConstraintsOf(circ)))

\* The variables of a circuit, the inputs ("one" first) and then the
\* auxiliary ones.
VariablesOf(circ) ==
  [i \in 1 .. NumInputs(circ) |-> Input(i - 1)]
    \o [j \in 1 .. NumAux(circ) |-> Aux(j - 1)]

\* beta * A_v + alpha * B_v + C_v, and alpha * A_v + beta * B_v + C_v.
ExtBetaA(circ, v) ==
  (Phase1Beta * Qap(circ, "a", v) + Phase1Alpha * Qap(circ, "b", v)
     + Qap(circ, "c", v)) % R
ExtAlphaA(circ, v) ==
  (Phase1Alpha * Qap(circ, "a", v) + Phase1Beta * Qap(circ, "b", v)
     + Qap(circ, "c", v)) % R

\* The non-zero values of the polynomials of a part, in the order of the
\* variables.
DenseQuery(circ, part) ==
  SelectSeq([k \in 1 .. Len(VariablesOf(circ)) |-> Qap(circ, part, VariablesOf(circ)[k])],
            NotIdentity)

\* The slots new's two calls of eval fill for a circuit, from the Lagrange
\* coefficients of the transcript of its domain.
SlotsOf(circ) ==
  LET asm == input_constraints(synthesize(circ, alloc_input(KeypairAssembly_new)).cs,
                               0, NumInputs(circ))
      m == Pow2(CeilLog2(NumConstraints(circ)))
      lag == [j \in 1 .. m |-> Phase1Lagrange(j - 1)]
      alpha_lag == [j \in 1 .. m |-> PointMul(lag[j], Phase1Alpha)]
      beta_lag == [j \in 1 .. m |-> PointMul(lag[j], Phase1Beta)]
  IN [inputs |-> eval(lag, lag, alpha_lag, beta_lag,
                      asm.at_inputs, asm.bt_inputs, asm.ct_inputs),
      aux |-> eval(lag, lag, alpha_lag, beta_lag,
                   asm.at_aux, asm.bt_aux, asm.ct_aux)]

(***************************************************************************)
(* C27, as the specification states it.  In the parameters new returns,    *)
(* the IC entry of every input v and the L entry of every auxiliary v is   *)
(* alpha * A_v(tau) + beta * B_v(tau) + C_v(tau).                          *)
(***************************************************************************)
C27_ExtIsAlphaAPlusBetaB ==
  outcome = Outcome("new", "Ok") =>
    LET circ == Circuits[circuit]
    IN /\ params.params.vk.ic
            = [i \in 1 .. NumInputs(circ) |-> ExtAlphaA(circ, Input(i - 1))]
       /\ params.params.l
            = [j \in 1 .. NumAux(circ) |-> ExtAlphaA(circ, Aux(j - 1))]

(***************************************************************************)
(* C27, amended.  In the parameters new returns, the IC entry of every     *)
(* input v and the L entry of every auxiliary v is                         *)
(* beta * A_v(tau) + alpha * B_v(tau) + C_v(tau); the A_G1 slot of v holds *)
(* A_v(tau) and its B_G1 and B_G2 slots B_v(tau), and the A and B queries  *)
(* of the parameters are the slots that are not the identity, in the order *)
(* of the variables.                                                       *)
(***************************************************************************)
C27_ExtIsBetaAPlusAlphaB ==
  outcome = Outcome("new", "Ok") =>
    LET circ == Circuits[circuit]
    IN /\ params.params.vk.ic
            = [i \in 1 .. NumInputs(circ) |-> ExtBetaA(circ, Input(i - 1))]
       /\ params.params.l
            = [j \in 1 .. NumAux(circ) |-> ExtBetaA(circ, Aux(j - 1))]
       /\ LET slots == SlotsOf(circ)
          IN /\ params.params.vk.ic = slots.inputs.ext
             /\ params.params.l = slots.aux.ext
             /\ \A i \in 1 .. NumInputs(circ) :
                  /\ slots.inputs.a_g1[i] = Qap(circ, "a", Input(i - 1))
                  /\ slots.inputs.b_g1[i] = Qap(circ, "b", Input(i - 1))
                  /\ slots.inputs.b_g2[i] = Qap(circ, "b", Input(i - 1))
             /\ \A j \in 1 .. NumAux(circ) :
                  /\ slots.aux.a_g1[j] = Qap(circ, "a", Aux(j - 1))
                  /\ slots.aux.b_g1[j] = Qap(circ, "b", Aux(j - 1))
                  /\ slots.aux.b_g2[j] = Qap(circ, "b", Aux(j - 1))
       /\ params.params.a = DenseQuery(circ, "a")
       /\ params.params.b_g1 = DenseQuery(circ, "b")
       /\ params.params.b_g2 = DenseQuery(circ, "b")

C27_Witness ==
  /\ outcome = Outcome("new", "Ok")
  /\ Circuits[circuit] = SquareCircuit
  /\ Qap(SquareCircuit, "a", Aux(0)) = 2
  /\ Qap(SquareCircuit, "b", Aux(0)) = 1
  /\ Qap(SquareCircuit, "c", Aux(0)) = 1
  /\ params.params.l = <<3>>
  /\ ExtAlphaA(SquareCircuit, Aux(0)) = 4

\* The column of variable v in the matrix of a part ("a", "b" or "c").
ColumnOf(cs, part, v) ==
  CASE part = "a" /\ v.kind = "Input" -> cs.at_inputs[v.id + 1]
    [] part = "a" /\ v.kind = "Aux" -> cs.at_aux[v.id + 1]
    [] part = "b" /\ v.kind = "Input" -> cs.bt_inputs[v.id + 1]
    [] part = "b" /\ v.kind = "Aux" -> cs.bt_aux[v.id + 1]
    [] part = "c" /\ v.kind = "Input" -> cs.ct_inputs[v.id + 1]
    [] part = "c" /\ v.kind = "Aux" -> cs.ct_aux[v.id + 1]

\* The six vectors of columns.
MatricesOf(cs) ==
  <<cs.at_inputs, cs.bt_inputs, cs.ct_inputs, cs.at_aux, cs.bt_aux, cs.ct_aux>>

(***************************************************************************)
(* C29.  After any sequence of alloc, alloc_input, enforce, push_namespace *)
(* and pop_namespace calls on a KeypairAssembly, at_inputs, bt_inputs and  *)
(* ct_inputs have num_inputs columns and at_aux, bt_aux and ct_aux have    *)
(* num_aux columns; an allocation returns the variable of its kind whose   *)
(* index is the number of variables of that kind allocated before, which   *)
(* no earlier allocation returned; the namespace calls change nothing of   *)
(* the assembly.                                                           *)
(***************************************************************************)
C29_AssemblyShape ==
  /\ [](LET cs == keypair_assembly.cs
        IN keypair_assembly.status # "none" =>
             /\ Len(cs.at_inputs) = cs.num_inputs
             /\ Len(cs.bt_inputs) = cs.num_inputs
             /\ Len(cs.ct_inputs) = cs.num_inputs
             /\ Len(cs.at_aux) = cs.num_aux
             /\ Len(cs.bt_aux) = cs.num_aux
             /\ Len(cs.ct_aux) = cs.num_aux)
  /\ [][LET cs == keypair_assembly.cs
            ret == keypair_assembly'.ret
        IN /\ Alloc =>
                /\ ret = Aux(cs.num_aux)
                /\ ret \notin Allocated(cs)
                /\ Allocated(keypair_assembly'.cs) = Allocated(cs) \cup {ret}
           /\ (AllocInput \/ AllocOne) =>
                /\ ret = Input(cs.num_inputs)
                /\ ret \notin Allocated(cs)
                /\ Allocated(keypair_assembly'.cs) = Allocated(cs) \cup {ret}
           /\ (PushNamespace \/ PopNamespace) => keypair_assembly'.cs = cs]_vars

\* alloc, push_namespace, alloc: the second auxiliary variable.
C29_Witness ==
  /\ keypair_assembly.status = "synthesize"
  /\ keypair_assembly.calls = 3
  /\ keypair_assembly.last = "alloc"
  /\ keypair_assembly.ret = Aux(1)
  /\ keypair_assembly.cs.num_aux = 2
  /\ keypair_assembly.cs.num_inputs = 1
  /\ keypair_assembly.cs.at_aux = <<<<>>, <<>>>>

\* The entries (coefficient, id) of the terms of lc that are terms of v.
RECURSIVE EntriesOf(_, _, _)
EntriesOf(lc, v, id) ==
  IF lc = <<>> THEN <<>>
  ELSE (IF Head(lc).var = v THEN <<<<Head(lc).coeff, id>>>> ELSE <<>>)
         \o EntriesOf(Tail(lc), v, id)

\* The constraint ids recorded in the assembly.
RecordedIds(cs) ==
  UNION {{MatricesOf(cs)[kv[1]][kv[2]][e][2] :
            e \in 1 .. Len(MatricesOf(cs)[kv[1]][kv[2]])} :
           kv \in {x \in (1 .. 6) \X (1 .. (cs.num_inputs + cs.num_aux)) :
                     x[2] <= Len(MatricesOf(cs)[x[1]])}}

(***************************************************************************)
(* C30.  An enforce call appends, for every term (coefficient, variable)   *)
(* of its A, B and C linear combinations and in their order, the pair      *)
(* (coefficient, id) to the column of the variable in the matrix of the    *)
(* part, id being the number of constraints enforced before the call, and  *)
(* adds one to num_constraints; the constraints new enforces for the       *)
(* inputs do the same.  So every recorded id is less than num_constraints, *)
(* which is at most the size m of the domain: every lookup of the QAP      *)
(* evaluation is within the arrays of m Lagrange coefficients.             *)
(***************************************************************************)
C30_EnforceRecordsTerms ==
  /\ [](LET cs == keypair_assembly.cs
            dom == domain_size(1, 0, cs.num_constraints)
        IN keypair_assembly.status # "none" =>
             /\ \A id \in RecordedIds(cs) : id < cs.num_constraints
             /\ keypair_assembly.status = "returned" =>
                  /\ dom.ok
                  /\ cs.num_constraints <= dom.m
                  /\ \A id \in RecordedIds(cs) : id + 1 \in 1 .. dom.m
                  /\ keypair_assembly.result.status # "Panic" =>
                       File_open(dom.exp).ok)
  /\ [][LET cs == keypair_assembly.cs
            cs1 == keypair_assembly'.cs
            args == keypair_assembly'.args
        IN (keypair_assembly'.last = "enforce" /\ keypair_assembly'.calls # keypair_assembly.calls) =>
             /\ cs1.num_constraints = cs.num_constraints + 1
             /\ cs1.num_inputs = cs.num_inputs /\ cs1.num_aux = cs.num_aux
             /\ \A v \in Allocated(cs) :
                  /\ ColumnOf(cs1, "a", v)
                       = ColumnOf(cs, "a", v) \o EntriesOf(args[1], v, cs.num_constraints)
                  /\ ColumnOf(cs1, "b", v)
                       = ColumnOf(cs, "b", v) \o EntriesOf(args[2], v, cs.num_constraints)
                  /\ ColumnOf(cs1, "c", v)
                       = ColumnOf(cs, "c", v) \o EntriesOf(args[3], v, cs.num_constraints)]_vars

\* x = alloc; enforce((x + x) * x = 4x): two entries in the A column of x.
C30_Witness ==
  /\ keypair_assembly.status = "returned"
  /\ keypair_assembly.result.status = "Ok"
  /\ keypair_assembly.synthesized.num_constraints = 1
  /\ keypair_assembly.cs.num_constraints = 2
  /\ keypair_assembly.cs.at_aux = <<<<<<1, 0>>, <<1, 0>>>>>>
  /\ keypair_assembly.cs.bt_aux = <<<<<<1, 0>>>>>>
  /\ keypair_assembly.cs.ct_aux = <<<<<<4, 0>>>>>>
  /\ keypair_assembly.cs.at_inputs = <<<<<<1, 1>>>>>>
  /\ RecordedIds(keypair_assembly.cs) = {0, 1}

\* The constraints new enforces after synthesize: one per input i, with
\* the next id, the term (1, Input(i)) in A and nothing in B and C.
SentinelPerInput ==
  LET syn == keypair_assembly.synthesized
      cs == keypair_assembly.cs
  IN /\ cs.num_constraints = syn.num_constraints + syn.num_inputs
     /\ cs.num_inputs = syn.num_inputs
     /\ cs.num_aux = syn.num_aux
     /\ \A i \in 0 .. (syn.num_inputs - 1) :
          cs.at_inputs[i + 1]
            = Append(syn.at_inputs[i + 1], <<1, syn.num_constraints + i>>)
     /\ cs.bt_inputs = syn.bt_inputs
     /\ cs.ct_inputs = syn.ct_inputs
     /\ cs.at_aux = syn.at_aux
     /\ cs.bt_aux = syn.bt_aux
     /\ cs.ct_aux = syn.ct_aux

(***************************************************************************)
(* C28.  After synthesize new enforces one constraint per input i in       *)
(* 0 .. num_inputs - 1, the input "one" included, each with the next       *)
(* constraint id, the term (1, Input(i)) in A and no term in B and C: the  *)
(* number of constraints grows by num_inputs, and no IC entry of the       *)
(* parameters new returns is the identity.                                 *)
(***************************************************************************)
C28_SentinelsPopulateIC ==
  keypair_assembly.status = "returned" =>
    /\ SentinelPerInput
    /\ keypair_assembly.result.status = "Ok" =>
         /\ Len(keypair_assembly.result.v.params.vk.ic) = keypair_assembly.cs.num_inputs
         /\ \A k \in 1 .. Len(keypair_assembly.result.v.params.vk.ic) :
              ~is_identity(keypair_assembly.result.v.params.vk.ic[k])

\* The constraints of the inputs are as C28 states them, and the IC entry
\* of an input that synthesize put in no constraint is not the identity.
C28_SentinelPerInput ==
  keypair_assembly.status = "returned" =>
    /\ SentinelPerInput
    /\ keypair_assembly.result.status = "Ok" =>
         /\ Len(keypair_assembly.result.v.params.vk.ic) = keypair_assembly.cs.num_inputs
         /\ \A k \in 1 .. Len(keypair_assembly.result.v.params.vk.ic) :
              (/\ keypair_assembly.synthesized.at_inputs[k] = <<>>
               /\ keypair_assembly.synthesized.bt_inputs[k] = <<>>
               /\ keypair_assembly.synthesized.ct_inputs[k] = <<>>)
                => ~is_identity(keypair_assembly.result.v.params.vk.ic[k])

\* x = alloc_input; enforce(0 * 0 = 4x): new returns Ok and the IC entry
\* of x is the identity.
C28_IdentityInIC ==
  /\ keypair_assembly.status = "returned"
  /\ keypair_assembly.result.status = "Ok"
  /\ keypair_assembly.synthesized.ct_inputs = <<<<>>, <<<<4, 0>>>>>>
  /\ keypair_assembly.cs.at_inputs = <<<<<<1, 1>>>>, <<<<1, 2>>>>>>
  /\ keypair_assembly.result.v.params.vk.ic[2] = Identity

(***************************************************************************)
(* C31.  contribute is a function of the state it is called on and of the  *)
(* stream its RNG yields.  A call that completes leaves in self, and        *)
(* returns, what the sequential contribute computes from the state before  *)
(* the call and the two values drawn, delta and s, on any number of CPUs   *)
(* and under any interleaving of the workers of its two batch_exp calls; a *)
(* call that panics leaves self as it was.  Two calls on equal states with  *)
(* equal streams therefore end in equal states with equal hashes.          *)
(***************************************************************************)
C31_ContributeDeterministicInRng ==
  LET c == contribute(before, batch.rng[1], batch.rng[2])
  IN /\ batch.main = "done" =>
          /\ c.status = "Ok"
          /\ params = c.self
          /\ receipts = <<c.ret>>
     /\ batch.main = "panicked" =>
          /\ c.status = "Panic"
          /\ params = before
          /\ receipts = <<>>

\* A second contribution on two CPUs, H having three elements.
C31_Witness ==
  /\ batch.main = "done"
  /\ batch.cpus = 2
  /\ batch.rng = <<3, 2>>
  /\ Len(before.contributions) = 1
  /\ Len(params.params.h) >= 3
  /\ Len(params.params.l) >= 1
  /\ params.params.h # before.params.h
  /\ receipts = <<pubkey_hash(params.contributions[2])>>

\* p as it is, with H or L one point shorter or longer, and with its list
\* of contributions emptied, one shorter or one (of delta 1) longer.
Shapes(p) ==
  { p,
    [p EXCEPT !.params.h = Append(@, G1Generator)],
    [p EXCEPT !.params.h = SubSeq(@, 1, Len(@) - 1)],
    [p EXCEPT !.params.l = Append(@, G1Generator)],
    [p EXCEPT !.params.l = SubSeq(@, 1, Len(@) - 1)],
    [p EXCEPT !.contributions = <<>>],
    [p EXCEPT !.contributions = SubSeq(@, 1, Len(@) - 1)],
    [p EXCEPT !.contributions = Append(@, keypair(1, G1Generator, p).pubkey)] }

(***************************************************************************)
(* C32.  verify_contribution returns Ok or Err, and never panics, whatever *)
(* two states it is given: the parameters new returns, a state read from a *)
(* file (with or without the checks of its points), either of them with H  *)
(* or L of another length or with another number of contributions, the     *)
(* empty list included.  When the numbers of contributions are not n and   *)
(* n + 1 it returns Err before the slice and before last(); when H or L    *)
(* differ in length it returns Err before merge_pairs.                     *)
(***************************************************************************)
C32_VerifyContributionNeverPanics ==
  \A b \in Shapes(before) \cup Shapes(params),
     a \in Shapes(before) \cup Shapes(params),
     rng \in Rngs :
    LET v == verify_contribution(b, a, rng)
    IN /\ v.status \in {"Ok", "Err"}
       /\ Len(a.contributions) # Len(b.contributions) + 1 =>
            v = VErr("single new object")
       /\ (Len(a.params.h) # Len(b.params.h) \/ Len(a.params.l) # Len(b.params.l)) =>
            /\ v.status = "Err"
            /\ v.at \in {"single new object", "previous transformations",
                         "h length", "l length"}

\* A file of one contribution has been read: the state verifies against
\* new(C), and is rejected with H a point longer, with L a point shorter,
\* as its own successor, and with the two states exchanged.
C32_Witness ==
  /\ outcome = Outcome("read", "Ok")
  /\ before.contributions = <<>>
  /\ Len(params.contributions) = 1
  /\ Len(params.params.h) >= 2
  /\ Len(params.params.l) >= 1
  /\ verify_contribution(before, params, <<1, 1>>).status = "Ok"
  /\ verify_contribution(before, [params EXCEPT !.params.h = Append(@, G1Generator)],
                         <<1, 1>>) = VErr("h length")
  /\ verify_contribution(before,
                         [params EXCEPT !.params.l = SubSeq(@, 1, Len(@) - 1)],
                         <<1, 1>>) = VErr("l length")
  /\ verify_contribution(params, before, <<1, 1>>) = VErr("single new object")
  /\ verify_contribution(before, before, <<1, 1>>) = VErr("single new object")

=============================================================================
